---- MODULE Spec2Model ----
(***************************************************************************)
(* Dynamic volume provisioning and the mount-pod cache of the kubelet.     *)
(*                                                                         *)
(*   ProvSpec  the ProvisioningController workflow (spec 4.2, 5; design    *)
(*             proposal docs/proposals/volume-provisioning.md)             *)
(*   SelSpec   the StorageClassMatcher as a function of its inputs         *)
(*   PodSpec   pkg/volume/mount_pod.go, the MountPodManager                *)
(***************************************************************************)
EXTENDS Integers, Sequences, FiniteSets, TLC

None == "none"

(***************************************************************************)
(* Storage classes, claims and volumes of the proposal's example.          *)
(***************************************************************************)
\* The classes of the example ("AWS provisioners with distinct QoS and
\* zones"); aws-fast-zone2 is given a provisioner for which no plugin is
\* registered, so that step 3 of the workflow can fail.
AllClasses == {"aws-slow-zone1", "aws-fast-zone1", "aws-slow-zone2", "aws-fast-zone2"}

ClassZone(cls) ==
    IF cls \in {"aws-slow-zone1", "aws-fast-zone1"} THEN "zone1" ELSE "zone2"

ClassProvisioner(cls) ==
    IF cls = "aws-fast-zone2" THEN "kubernetes.io/gce-pd" ELSE "kubernetes.io/aws-ebs"

\* Plugins registered at startup (immutable afterwards).
RegisteredProvisioners == {"kubernetes.io/aws-ebs"}

\* kube-controller-manager --default-storage-class="aws-slow-zone1"
DefaultClassName == "aws-slow-zone1"

Selectors == {None, "zone1", "zone2", "zone3"}

\* candidateClasses: the classes whose labels satisfy the claim's selector;
\* an unselected claim matches every class; an explicit class reference with
\* no selector is a singleton candidate set.
CandidateClasses(selector, classRef, existing) ==
    IF selector = None /\ classRef # None
    THEN {cls \in existing : cls = classRef}
    ELSE {cls \in existing : selector = None \/ ClassZone(cls) = selector}

\* A variant that always takes the same candidate instead of a random one.
SelectClassFirstCandidate(candidateClasses, defaultClassName) ==
    IF candidateClasses = {} THEN {None}
    ELSE IF defaultClassName \in candidateClasses THEN {defaultClassName}
    ELSE {CHOOSE cls \in candidateClasses : TRUE}

\* A variant that ignores the default class.
SelectClassNoDefault(candidateClasses, defaultClassName) ==
    IF candidateClasses = {} THEN {None} ELSE candidateClasses

\* SelectClass(claim, candidateClasses, defaultClassName) -> class | none.
\* The result is the set of classes a call may return: the random choice is
\* a nondeterministic one.
SelectClass(candidateClasses, defaultClassName) ==
    IF candidateClasses = {} THEN {None}
    ELSE IF defaultClassName \in candidateClasses THEN {defaultClassName}
    ELSE candidateClasses

(***************************************************************************)
(* ProvisioningController: one work queue of claim keys, a pool of         *)
(* reconciliation workers, and per claim the cycle                         *)
(*   Unbound -> MatchingVolume -> Provisioning -> Binding -> Bound         *)
(*                                          \-> CleaningUp                 *)
(***************************************************************************)
Claims == {"c1", "c2"}

\* The reconciliation workers taking keys from the work queue.
Workers == {"w1", "w2"}

\* Creation of the volume object is retried a bounded number of times.
MaxCreateAttempts == 2

\* The one pre-existing (manually created) volume; it carries zone=zone2.
StaticVolumeZone == "zone2"

\* The shapes of claim of the proposal's examples: no selector, a selector
\* per zone, and a claim with an explicit class reference and no selector.
ClaimKinds ==
    {[selector |-> s, classRef |-> None] : s \in Selectors}
        \cup {[selector |-> None, classRef |-> "aws-slow-zone2"]}

\* The classes an administrator creates while the controller runs.
ProvClasses == AllClasses \ {"aws-fast-zone1"}

VARIABLES
    selClaim,    \* SelSpec: the claim handed to the matcher
    selClasses,  \* SelSpec: the storage classes that exist
    selDefault,  \* SelSpec: the configured default class name, or none
    selResult,   \* SelSpec: what the latest SelectClass call returned
    selPrev      \* SelSpec: what the call before it returned

selVars == <<selClaim, selClasses, selDefault, selResult, selPrev>>

VARIABLES
    claims,      \* claim -> [selector, classRef], fixed when submitted
    phase,       \* claim -> "Pending" | "Bound"
    deleted,     \* the claims that were deleted
    classes,     \* the storage classes that exist
    staticVol,   \* "absent" | "available" | the claim it is bound to
    pvObjects,   \* the claims for which a provisioned volume object exists
    queue,       \* claim keys waiting in the work queue
    backoff,     \* claim keys waiting for their backoff to expire
    worker       \* worker -> its reconciliation cycle

provVars == <<claims, phase, deleted, classes, staticVol, pvObjects, queue,
              backoff, worker>>

VARIABLES
    pods,        \* mountPodManager.pods: plugin name -> (UID -> pod)
    mutex,       \* mountPodManager.mutex: the caller that holds it, or none
    call         \* caller -> the MountPodManager method it executes

podVars == <<pods, mutex, call>>

VARIABLES
    mounterPath, \* Mounter.mounterPath: the containerized mounter, or ""
    mcall,       \* the call to a mount.Interface method in progress
    cmds         \* what the call has run so far, in order

mntVars == <<mounterPath, mcall, cmds>>

VARIABLES
    fcall,       \* the call to SafeFormatAndMount.formatAndMount in progress
    fcmds        \* what the call has run so far, in order

fmtVars == <<fcall, fcmds>>

VARIABLES
    procMounts,  \* the content of /proc/mounts
    lcall        \* the call to listProcMounts in progress

procVars == <<procMounts, lcall>>

VARIABLES
    mountInfo,   \* the content of /proc/self/mountinfo
    scall,       \* the call to isShared or MakeShared in progress
    made         \* the path the latest MakeShared left shared, if any

shareVars == <<mountInfo, scall, made>>

VARIABLES
    fsState,     \* what is mounted on the path, and what the path is
    tcall        \* the calls made on the path, one after the other

statVars == <<fsState, tcall>>

VARIABLES
    ecall        \* the ExecSync call in progress and its command

execVars == <<ecall>>

VARIABLES
    sock         \* the arguments and result of GetVolumePluginSocketPath

sockVars == <<sock>>

VARIABLES
    hcall        \* the GetMounter or GetExec call and the use of its result

hostVars == <<hcall>>

VARIABLES
    vcall        \* the StorageClass in the store and the latest validation

valVars == <<vcall>>

VARIABLES
    stopCh,      \* how many times the stop channel was closed
    srv,         \* the goroutine of each ExecServer
    mainPc       \* where main is

stopVars == <<stopCh, srv, mainPc>>

VARIABLES
    csiDir,      \* the target directory of the CSI volume and its mounts
    ccall        \* the SetUpAt call in progress and what it did

csiVars == <<csiDir, ccall>>

nonProvVars == <<selVars, podVars, mntVars, fmtVars, procVars,
    shareVars, statVars, execVars, sockVars,
    hostVars, valVars, stopVars, csiVars>>

nonSelVars == <<provVars, podVars, mntVars, fmtVars, procVars,
    shareVars, statVars, execVars, sockVars,
    hostVars, valVars, stopVars, csiVars>>

nonPodVars == <<provVars, selVars, mntVars, fmtVars, procVars,
    shareVars, statVars, execVars, sockVars,
    hostVars, valVars, stopVars, csiVars>>

nonMntVars == <<provVars, selVars, podVars, fmtVars, procVars,
    shareVars, statVars, execVars, sockVars,
    hostVars, valVars, stopVars, csiVars>>

nonFmtVars == <<provVars, selVars, podVars, mntVars, procVars,
    shareVars, statVars, execVars, sockVars,
    hostVars, valVars, stopVars, csiVars>>

nonProcVars == <<provVars, selVars, podVars, mntVars, fmtVars,
    shareVars, statVars, execVars, sockVars,
    hostVars, valVars, stopVars, csiVars>>

nonShareVars == <<provVars, selVars, podVars, mntVars, fmtVars, procVars,
    statVars, execVars, sockVars,
    hostVars, valVars, stopVars, csiVars>>

nonStatVars == <<provVars, selVars, podVars, mntVars, fmtVars, procVars,
    shareVars, execVars, sockVars,
    hostVars, valVars, stopVars, csiVars>>

nonExecVars == <<provVars, selVars, podVars, mntVars, fmtVars, procVars,
    shareVars, statVars, sockVars,
    hostVars, valVars, stopVars, csiVars>>

nonSockVars == <<provVars, selVars, podVars, mntVars, fmtVars, procVars,
    shareVars, statVars, execVars,
    hostVars, valVars, stopVars, csiVars>>

oldVars == <<provVars, selVars, podVars, mntVars, fmtVars, procVars,
    shareVars, statVars, execVars, sockVars>>

nonHostVars == <<oldVars, valVars, stopVars, csiVars>>

nonValVars == <<oldVars, hostVars, stopVars, csiVars>>

nonStopVars == <<oldVars, hostVars, valVars, csiVars>>

nonCsiVars == <<oldVars, hostVars, valVars, stopVars>>

IdleWorker ==
    [key |-> None, pc |-> "Idle", foundVolume |-> FALSE, class |-> None,
     provCalls |-> 0, provisioned |-> FALSE, attempts |-> 0,
     created |-> FALSE, deleteAttempted |-> FALSE, event |-> None]

\* The keys some worker is reconciling.
Processing == {worker[w].key : w \in {x \in Workers : worker[x].pc # "Idle"}}

PendingClaims == {c \in Claims : phase[c] = "Pending" /\ c \notin deleted}

\* The existing unbound volume satisfies the claim's selector.
VolumeSatisfies(c) ==
    claims[c].selector \in {None, StaticVolumeZone}

VolumeAvailable(c) == staticVol = "available" /\ VolumeSatisfies(c)

Candidates(c) ==
    CandidateClasses(claims[c].selector, claims[c].classRef, classes)

(***************************************************************************)
(* MountPodManager (pkg/volume/mount_pod.go): pods and plugin names.       *)
(***************************************************************************)
\* The concurrent callers: the kubelet's pod event handler, which delivers
\* every pod (AddPod, DeletePod), and a second goroutine, which looks for a
\* mount pod (GetPod) and also delivers updates of pod "1".
Callers == {"handler", "plugin"}

WatchedNamespace == "kube-mount"
Namespaces == {WatchedNamespace, "xxx"}

\* pluginMgr.GetPluginNames(): the registered plugins.
GetPluginNames == {"kubernetes.io/fake-plugin1", "kubernetes.io/fake-plugin2"}

\* Plugin names a caller or a label may name; the last is not registered.
AllPluginNames == GetPluginNames \cup {"kubernetes.io/fake-plugin9"}

UIDs == {"1", "2", "3"}

\* A UID names one pod and a pod never changes its namespace: pods "1" and
\* "2" live in the watched namespace, pod "3" in another one.
NamespaceOf(uid) == IF uid = "3" THEN "xxx" ELSE WatchedNamespace

Phases == {"Running", "Succeeded"}

NoLabels == [k \in {} |-> ""]

\* The label maps of the pods: none, "true" or "false" for the registered
\* plugins, and a label for a plugin that is not registered.
PodLabelSets ==
    {NoLabels,
     [k \in {"mount.kubernetes.io/fake-plugin1"} |-> "true"],
     [k \in {"mount.kubernetes.io/fake-plugin2"} |-> "true"],
     [k \in {"mount.kubernetes.io/fake-plugin1",
             "mount.kubernetes.io/fake-plugin2"} |-> "true"],
     [k \in {"mount.kubernetes.io/fake-plugin1",
             "mount.kubernetes.io/fake-plugin2"} |->
         IF k = "mount.kubernetes.io/fake-plugin1" THEN "true" ELSE "false"],
     [k \in {"mount.kubernetes.io/fake-plugin9"} |-> "true"]}

\* The label maps the versions of a pod carry: all of them for pod "1", one
\* registered plugin for pod "2", both registered plugins for pod "3".
LabelSetsOf(uid) ==
    IF uid = "1" THEN PodLabelSets
    ELSE {labels \in PodLabelSets :
             /\ \A k \in DOMAIN labels : labels[k] = "true"
             /\ IF uid = "2"
                THEN DOMAIN labels \in {{"mount.kubernetes.io/fake-plugin1"},
                                        {"mount.kubernetes.io/fake-plugin2"}}
                ELSE DOMAIN labels = {"mount.kubernetes.io/fake-plugin1",
                                      "mount.kubernetes.io/fake-plugin2"}}

\* The versions of the pods that a caller may pass.
AllPods ==
    {pod \in [uid : UIDs, namespace : Namespaces, phase : Phases,
              labels : PodLabelSets] :
        /\ pod.namespace = NamespaceOf(pod.uid)
        /\ pod.labels \in LabelSetsOf(pod.uid)}

\* The pods a caller passes to AddPod and DeletePod.
CallerPods(t) ==
    IF t = "handler" THEN AllPods
    ELSE {pod \in AllPods :
             /\ pod.uid = "1"
             /\ DOMAIN pod.labels = {"mount.kubernetes.io/fake-plugin1"}}

\* The plugin names a caller passes to GetPod.
CallerPluginNames(t) == IF t = "plugin" THEN AllPluginNames ELSE {}

\* A caller's frame: the method, its argument, where it stands, what GetPod
\* returned (the empty set for nil, otherwise the set of the one pod), and,
\* for stating properties only, the plugins that held the pod's UID when the
\* caller took the mutex.
NoCall == [op |-> None, pod |-> None, pluginName |-> None, pc |-> "idle",
           ret |-> {}, before |-> {}]

\* NewMountPodManager: an empty cache, nobody inside.
PodIdle ==
    /\ pods = [p \in {} |-> [u \in {} |-> None]]
    /\ mutex = None
    /\ call = [t \in Callers |-> NoCall]

(***************************************************************************)
(* mount.Interface (pkg/util/mount): the local Mounter and the execMounter. *)
(***************************************************************************)
\* The longest option list a caller passes.
MaxOptions == 3

\* Mount options a caller passes.
MountOptions == {"bind", "remount", "ro", "noatime"}

\* Filesystem types: none, two local ones and the network filesystems.
FsTypes == {"", "ext4", "tmpfs", "nfs", "glusterfs", "ceph", "cifs"}

\* mount(8), as the local Mounter and the execMounter name it.
defaultMountCommand == "mount"

\* The values of Mounter.mounterPath: no containerized mounter, or its path.
MounterPaths == {"", "/home/kubernetes/bin/mounter"}

\* The two implementations of mount.Interface.
Implementations == {"Mounter", "execMounter"}

\* The methods of mount.Interface.
Methods ==
    {"Mount", "Unmount", "List", "IsLikelyNotMountPoint", "DeviceOpened",
     "PathIsDevice", "GetDeviceNameFromMount", "MakeShared", "Exec"}

MountSource == "/dev/sdb"

MountTarget == "/mnt/target"

NoMountCall ==
    [impl |-> None, method |-> None, fstype |-> "", options |-> <<>>,
     pc |-> "idle", err |-> FALSE]

\* No call to a mounter is in progress.
MntIdle ==
    /\ mounterPath = ""
    /\ mcall = NoMountCall
    /\ cmds = <<>>

(***************************************************************************)
(* SafeFormatAndMount.formatAndMount (mount_linux.go).                     *)
(***************************************************************************)
\* Exit statuses of fsck that the code names.
fsckErrorsCorrected == 1

fsckErrorsUncorrected == 4

\* How mounter.Exec.Run("fsck", ...) may end: no error, the executable is
\* missing, an exit status, or another error.
FsckOutcomes ==
    {[kind |-> "nil", status |-> 0],
     [kind |-> "ErrExecutableNotFound", status |-> 0],
     [kind |-> "error", status |-> 0]}
    \cup {[kind |-> "ExitError", status |-> n] : n \in {1, 2, 4, 5, 8, 128}}

\* Filesystem types a caller of formatAndMount asks for; "" asks for none.
FormatFsTypes == {"", "ext4", "ext3", "xfs"}

\* Option lists a caller of formatAndMount passes.
FormatOptions == {<<>>, <<"ro">>}

\* What lsblk -n -o FSTYPE prints, as a sequence of line contents and line
\* ends: nothing; an empty line (a blank disk); a filesystem; an empty line
\* for the disk and one for an empty partition; a disk with a formatted
\* partition; a filesystem that has dependent devices.
LsblkOutputs ==
    {<<>>,
     <<"\n">>,
     <<"ext4", "\n">>,
     <<"xfs", "\n">>,
     <<"\n", "\n">>,
     <<"\n", "ext4", "\n">>,
     <<"LVM2_member", "\n", "ext4", "\n">>}

NoFormatCall ==
    [fstype |-> "", options |-> <<>>, pc |-> "idle", mountFstype |-> "",
     existingFormat |-> "", ret |-> None]

\* No call to formatAndMount is in progress.
FmtIdle ==
    /\ fcall = NoFormatCall
    /\ fcmds = <<>>

(***************************************************************************)
(* The mount table /proc/mounts and listProcMounts (mount_linux.go).       *)
(***************************************************************************)
\* How many times to retry for a consistent read of /proc/mounts.
maxListTries == 3

\* Number of fields per line in /proc/mounts.
expectedNumFieldsPerLine == 6

\* Lines of /proc/mounts: device, path, type, options, frequency, pass. The
\* options are written as their pieces, names and commas.
RootLine == <<"/dev/sda1", "/", "ext4", <<"rw", ",", "relatime">>, "0", "0">>

NfsLine == <<"server:/export", "/mnt/nfs", "nfs", <<"rw">>, "0", "0">>

TmpfsLine == <<"tmpfs", "/run", "tmpfs", <<"rw", ",", "nosuid">>, "0", "2">>

\* A line that lacks the two numbers, and one whose pass is not a number.
ShortLine == <<"tmpfs", "/run", "tmpfs", <<"rw">>>>

BadPassLine == <<"tmpfs", "/run", "tmpfs", <<"rw">>, "0", "x">>

\* The contents /proc/mounts may have at a read.
ProcMountsTables ==
    {<<RootLine>>,
     <<RootLine, NfsLine>>,
     <<RootLine, TmpfsLine>>,
     <<RootLine, NfsLine, TmpfsLine>>,
     <<RootLine, ShortLine>>,
     <<RootLine, BadPassLine>>}

NoListCall ==
    [pc |-> "idle", hash1 |-> None, i |-> 0, reads |-> <<>>,
     mps |-> <<>>, ret |-> None]

\* No call to listProcMounts is in progress; only the root is mounted.
ProcIdle ==
    /\ procMounts = <<RootLine>>
    /\ lcall = NoListCall

\* Text is written as its pieces, so that one text can be the beginning of
\* another: a path as its separators and names, an optional field as its tag
\* and its number.
KubeletDir == <<"/", "var", "/", "lib", "/", "kube", "let">>

KubeDir == <<"/", "var", "/", "lib", "/", "kube">>

VarDir == <<"/", "var">>

MntDir == <<"/", "mnt">>

RootDir == <<"/">>

\* The paths isShared and MakeShared are called with.
SharePaths == {KubeletDir, MntDir}

SharedTag == <<"shared:", "1">>

MasterTag == <<"master:", "2">>

\* A line of mountinfo: mount ID, parent ID, major:minor, root, mount point,
\* mount options, optional fields, separator, type, source, super options.
MountInfoLine(mountPoint, optional, source) ==
    <<<<"36">>, <<"35">>, <<"8:1">>, <<"/">>, mountPoint, <<"rw">>>>
    \o optional
    \o <<<<"-">>, <<"ext4">>, source, <<"rw">>>>

DevSda == <<"/dev/sda1">>

RootPrivate == MountInfoLine(RootDir, <<>>, DevSda)

RootShared == MountInfoLine(RootDir, <<SharedTag>>, DevSda)

\* A private mount whose source is named like the propagation tag.
RootSharedSource == MountInfoLine(RootDir, <<>>, SharedTag)

VarSlave == MountInfoLine(VarDir, <<MasterTag>>, DevSda)

VarShared == MountInfoLine(VarDir, <<SharedTag, MasterTag>>, DevSda)

KubeShared == MountInfoLine(KubeDir, <<SharedTag>>, DevSda)

MntShared == MountInfoLine(MntDir, <<SharedTag>>, DevSda)

\* A line cut after its mount options.
ShortInfoLine == <<<<"36">>, <<"35">>, <<"8:1">>, <<"/">>, MntDir, <<"rw">>>>

\* The contents the mountinfo file may have when something else mounts or
\* unmounts.
MountInfoTables ==
    {<<RootPrivate>>,
     <<RootShared>>,
     <<RootSharedSource>>,
     <<RootPrivate, VarShared>>,
     <<RootShared, VarSlave>>,
     <<RootPrivate, KubeShared>>,
     <<MntShared>>,
     <<RootShared, ShortInfoLine>>}

\* The longest mountinfo file the model lets bind mounts build.
MaxInfoLines == 3

NoShareCall ==
    [op |-> "none", path |-> <<>>, pc |-> "idle", oldInfo |-> <<>>,
     file |-> <<>>, second |-> FALSE, cmds |-> <<>>,
     ret |-> None]

\* No call to isShared or MakeShared is in progress.
ShareIdle ==
    /\ mountInfo = <<RootPrivate>>
    /\ scall = NoShareCall
    /\ made = {}

\* The device of the directory that holds the path, and another device.
ParentDev == 1

OtherDev == 2

Devs == {ParentDev, OtherDev}

\* What the path may be: a directory, a regular file, or nothing.
PathKinds == {"dir", "file", "missing"}

\* The longest sequence of calls on the path, and the most mounts stacked
\* on it.
MaxStatOps == 4

MaxStack == 2

\* The option lists Mount is called with here.
StatMountOptions == {<<>>, <<"bind">>, <<"bind", "ro">>}

NoStatCall == [log |-> <<>>]

\* The path is a plain directory and nothing was called on it.
StatIdle ==
    /\ fsState = [kind |-> "dir", stack |-> <<>>]
    /\ tcall = NoStatCall

\* Who calls ExecSync: the kubelet through grpcExec.Run, or another client
\* of the service that fills the request itself.
ExecClients == {"grpcExec", "direct"}

\* Commands with their arguments; a request may carry none.
ExecCommands ==
    {<<>>, <<"mount", "-t", "nfs", "server:/export", "/mnt/target">>,
     <<"umount", "/mnt/target">>, <<"mkfs.ext4", "/dev/sdb">>}

\* ExecSyncRequest.Timeout in seconds; 0 when the field is not set.
ExecTimeouts == {0, 1, 300}

\* What a started command does when left alone: exit with 0, exit with
\* another code, fail to start, or never exit.
Behaviours == {"exit0", "exit1", "exit32", "startError", "hang"}

\* The behaviours that are an exit, and the exit status of each.
Exits == {"exit0", "exit1", "exit32"}

ExitStatusOf(behaviour) ==
    IF behaviour = "exit0" THEN 0
    ELSE IF behaviour = "exit1" THEN 1
    ELSE 32

\* What a command may have written to its standard output and to its
\* standard error when it ends.
Outputs ==
    {[stdout |-> o, stderr |-> e] :
        o \in {<<>>, <<"mounted">>}, e \in {<<>>, <<"warning">>, <<"mounted">>}}

NoOutput == [stdout |-> <<>>, stderr |-> <<>>]

NoExecResponse ==
    [err |-> FALSE, ExitCode |-> 0, Stdout |-> <<>>, Stderr |-> <<>>]

NoExecReply == [out |-> <<>>, kind |-> "none", code |-> 0]

NoExecResult == [err |-> FALSE, exitcode |-> 0]

NoExecCall ==
    [pc |-> "idle", client |-> "none", cmd |-> <<>>, timeout |-> 0,
     behaviour |-> "none", timer |-> "none", process |-> "none",
     done |-> <<>>, result |-> NoExecResult, failure |-> FALSE,
     writes |-> NoOutput, response |-> NoExecResponse,
     reply |-> NoExecReply]

\* No ExecSync call is in progress.
ExecIdle == ecall = NoExecCall

\* Kubelet root directories as the --root-dir flag may give them, written
\* as their pieces: the default, the same with a slash at its end, and "/".
KubeletRootDirs ==
    {<<"/", "var", "/", "lib", "/", "kubelet">>,
     <<"/", "var", "/", "lib", "/", "kubelet", "/">>,
     <<"/">>}

\* The pieces plugin names are made of, and the most pieces in a name.
NamePieces == {"/", "~", ".", "kubernetes.io", "nfs"}

MaxNameLen == 3

RECURSIVE NamesUpTo(_)
NamesUpTo(n) ==
    IF n = 0 THEN {<<>>}
    ELSE NamesUpTo(n - 1) \cup
         {Append(l, c) : l \in {x \in NamesUpTo(n - 1) : Len(x) = n - 1},
                         c \in NamePieces}

\* The plugin names given on the command line of the helper process.
SocketPluginNames == NamesUpTo(MaxNameLen)

NoPath == [rooted |-> FALSE, elems |-> <<>>]

NoSock ==
    [pc |-> "idle", rootDir |-> <<>>, pluginName |-> <<>>, path |-> NoPath]

\* GetVolumePluginSocketPath was not called.
SockIdle == sock = NoSock

\* What os.Stat finds at the socket path of the plugin: nothing, a regular
\* file, a socket, or an error other than absence.
SocketFiles == {"missing", "regular", "socket", "statError"}

\* What grpc.Dial returns in newGrpcExec.
DialResults == {"connected", "dialError"}

\* The error of a failed grpc.Dial, as a piece of error text.
DialError == "grpc: dial failed"

Getters == {"GetMounter", "GetExec"}

\* How a command that was really run ends, and a call that did not get
\* through to the helper.
RunOutcomes == {"ok", "failed", "unavailable"}

\* The most operations the model makes on one returned implementation.
MaxHostOps == 3

NoHostCall ==
    [pc |-> "idle", getter |-> "none", file |-> "none", dial |-> "none",
     impl |-> "none", exec |-> "none", wrapped |-> "none", log |-> <<>>]

\* Neither GetMounter nor GetExec was called.
HostIdle == hcall = NoHostCall

\* const maxProvisionerParameterSize = 256 * (1 << 10)
maxProvisionerParameterSize == 262144

maxProvisionerParameterLen == 512

\* Entries of a parameter map, described by how many they are and how long
\* each key and each value is; blocks of different names have different
\* keys.
TypeSsd == [name |-> "type=ssd", count |-> 1, klen |-> 4, vlen |-> 3]

TypeHdd == [name |-> "type=hdd", count |-> 1, klen |-> 4, vlen |-> 3]

EmptyKey == [name |-> "=value", count |-> 1, klen |-> 0, vlen |-> 5]

Filler511 ==
    [name |-> "511 keys of 256 with values of 256", count |-> 511,
     klen |-> 256, vlen |-> 256]

Filler1 ==
    [name |-> "1 key of 256 with a value of 256", count |-> 1,
     klen |-> 256, vlen |-> 256]

TwoShort ==
    [name |-> "2 keys of 1 with empty values", count |-> 2, klen |-> 1,
     vlen |-> 0]

OneLong ==
    [name |-> "1 key of 1 with a value of 262143", count |-> 1, klen |-> 1,
     vlen |-> 262143]

\* A map[string]string: nil, or made and holding the entries of some
\* blocks.
NilParameters == [isNil |-> TRUE, blocks |-> {}]

\* The maps validation is given: none, few entries, an empty key, 512
\* entries of 262144 bytes, 513 entries, one entry of 262144 bytes, two
\* entries of more.
ParameterMaps ==
    {NilParameters}
    \cup {[isNil |-> FALSE, blocks |-> b] :
             b \in {{}, {TypeSsd}, {TypeHdd}, {TypeSsd, TypeHdd}, {EmptyKey},
                    {Filler511, Filler1}, {Filler511, TwoShort}, {OneLong},
                    {OneLong, TypeSsd}}}

\* Provisioner names, as their pieces.
Provisioners ==
    {<<>>,
     <<"kubernetes.io", "/", "foo-provisioner">>,
     <<"foo">>,
     <<"Example.COM", "/", "Foo">>,
     <<"kubernetes.io", "/", "invalid", "/", "provisioner">>,
     <<"/", "foo">>,
     <<"foo bar">>}

ReclaimPolicies == {"", "Delete", "Retain", "Recycle"}

\* metadata.name: a DNS subdomain, nothing, or not a DNS subdomain.
ClassNames == {"foo", "", "Foo_Bar"}

\* The StorageClass objects validation is given; AllowVolumeExpansion is a
\* pointer.
StorageClasses ==
    [name : ClassNames, namespace : {"", "bar"}, provisioner : Provisioners,
     parameters : ParameterMaps, reclaimPolicy : ReclaimPolicies,
     allowVolumeExpansion : {"nil", "true", "false"}]

\* What an update may put into the three fields.
UpdateProvisioners == {<<"kubernetes.io", "/", "foo-provisioner">>, <<"foo">>}

UpdateReclaimPolicies == {"Delete", "Retain"}

UpdateParameters ==
    {NilParameters,
     [isNil |-> FALSE, blocks |-> {}],
     [isNil |-> FALSE, blocks |-> {TypeSsd}],
     [isNil |-> FALSE, blocks |-> {TypeHdd}]}

\* What ValidateObjectMetaUpdate may return.
MetaUpdateErrors ==
    {{}, {[type |-> "Invalid", field |-> "metadata.name"]}}

NoValCall ==
    [gate |-> FALSE, stored |-> {}, created |-> {}, op |-> "none",
     obj |-> {}, old |-> {}, errs |-> {}]

\* No StorageClass was validated.
ValIdle == vcall = NoValCall

\* The most plugins volumeexec is started with.
MaxServers == 2

\* An ExecServer that main has made and not yet started.
NewServer == [pc |-> "new", sig |-> "none", stopped |-> FALSE]

\* volumeexec does not run.
StopIdle == stopCh = 0 /\ srv = <<>> /\ mainPc = "idle"

\* The path and the options SetUpAt passes to Mount.
GlobalPath == "globalDeviceMountPath"

NoCsiCall ==
    [pc |-> "idle", readOnly |-> FALSE, globalDev |-> 0, log |-> <<>>,
     ret |-> "none", prev |-> "none"]

\* No CSI volume is being set up.
CsiIdle == csiDir = <<>> /\ ccall = NoCsiCall

\* The matcher's variables while the controller is the system under study.
SelIdle ==
    /\ selClaim = [selector |-> None, classRef |-> None]
    /\ selClasses = {}
    /\ selDefault = None
    /\ selResult = "unset"
    /\ selPrev = "unset"

ProvInit ==
    /\ claims \in [Claims -> ClaimKinds]
    /\ phase = [c \in Claims |-> "Pending"]
    /\ deleted = {}
    /\ classes = {}
    /\ staticVol = "absent"
    /\ pvObjects = {}
    /\ queue = Claims
    /\ backoff = {}
    /\ worker = [w \in Workers |-> IdleWorker]

\* A variant of the queue that hands out a key that is being reconciled.
MayStartUnserialized(c) == c \in queue

\* A worker may take key c: it is queued and no worker is reconciling it.
MayStart(c) == c \in queue /\ c \notin Processing

\* A variant of step 1 that provisions without looking for a volume first
\* (the alpha, annotation-triggered behaviour).
BindsExistingAlpha(c) == FALSE

\* Step 1: an existing unbound volume that satisfies the claim is bound.
BindsExisting(c) == VolumeAvailable(c)

\* Step 1 of a cycle: take the key, look for an existing volume, bind it.
StartCycle(w, c) ==
    /\ worker[w].pc = "Idle"
    /\ MayStart(c)
    /\ queue' = queue \ {c}
    /\ IF c \notin PendingClaims
       THEN UNCHANGED <<phase, staticVol, worker>>
       ELSE IF BindsExisting(c)
       THEN /\ staticVol' = c
            /\ phase' = [phase EXCEPT ![c] = "Bound"]
            /\ worker' = [worker EXCEPT ![w] =
                   [IdleWorker EXCEPT !.key = c, !.pc = "Done",
                                      !.foundVolume = TRUE]]
       ELSE /\ UNCHANGED <<phase, staticVol>>
            /\ worker' = [worker EXCEPT ![w] =
                   [IdleWorker EXCEPT !.key = c, !.pc = "MatchingVolume",
                                      !.foundVolume = VolumeAvailable(c)]]
    /\ UNCHANGED <<claims, deleted, classes, pvObjects, backoff>>
    /\ UNCHANGED nonProvVars

\* A variant that falls back to the default class when nothing matches.
ChooseClassOrDefault(c) ==
    IF Candidates(c) = {} /\ DefaultClassName \in classes
    THEN {DefaultClassName}
    ELSE SelectClass(Candidates(c), DefaultClassName)

\* Step 2: the matcher is asked afresh in every cycle.
ChooseClass(c) == SelectClass(Candidates(c), DefaultClassName)

\* Steps 2-4: pick a class, resolve its plugin, invoke Provision.
MatchClass(w) ==
    /\ worker[w].pc = "MatchingVolume"
    /\ \E cls \in ChooseClass(worker[w].key) :
          worker' = [worker EXCEPT ![w] =
              IF cls = None
              THEN [@ EXCEPT !.pc = "Done"]
              ELSE IF ClassProvisioner(cls) \notin RegisteredProvisioners
              THEN [@ EXCEPT !.pc = "Done", !.class = cls,
                             !.event = "ProvisioningFailed"]
              ELSE [@ EXCEPT !.pc = "Provisioning", !.class = cls,
                             !.provCalls = @ + 1]]
    /\ UNCHANGED <<claims, phase, deleted, classes, staticVol, pvObjects,
                   queue, backoff>>
    /\ UNCHANGED nonProvVars

\* A variant that calls Provision again at once when it failed.
AfterProvisionErrorRetry(wr) ==
    IF wr.provCalls < 2
    THEN [wr EXCEPT !.provCalls = @ + 1]
    ELSE [wr EXCEPT !.pc = "Done", !.event = "ProvisioningFailed"]

\* Provision returned an error: event on the claim, the cycle ends.
AfterProvisionError(wr) ==
    [wr EXCEPT !.pc = "Done", !.event = "ProvisioningFailed"]

\* Step 4: Provision returns.
ProvisionReturn(w, ok) ==
    /\ worker[w].pc = "Provisioning"
    /\ worker' = [worker EXCEPT ![w] =
           IF ok THEN [@ EXCEPT !.pc = "Binding", !.provisioned = TRUE]
           ELSE AfterProvisionError(@)]
    /\ UNCHANGED <<claims, phase, deleted, classes, staticVol, pvObjects,
                   queue, backoff>>
    /\ UNCHANGED nonProvVars

\* A variant that gives up after the last failed creation without cleanup.
AfterCreateFailedNoCleanup(wr) ==
    [wr EXCEPT !.attempts = @ + 1,
               !.pc = IF wr.attempts + 1 >= MaxCreateAttempts
                      THEN "Done" ELSE "Binding"]

\* Creation failed: try again, or clean up after the last attempt.
AfterCreateFailed(wr) ==
    [wr EXCEPT !.attempts = @ + 1,
               !.pc = IF wr.attempts + 1 >= MaxCreateAttempts
                      THEN "CleaningUp" ELSE "Binding"]

\* Step 5: one attempt to create the volume object, bound to the claim.
CreateVolume(w, ok) ==
    /\ worker[w].pc = "Binding"
    /\ LET c == worker[w].key IN
       IF ok
       THEN /\ pvObjects' = pvObjects \cup {c}
            /\ phase' = [phase EXCEPT ![c] = "Bound"]
            /\ worker' = [worker EXCEPT ![w] =
                   [@ EXCEPT !.pc = "Done", !.attempts = @ + 1,
                             !.created = TRUE]]
       ELSE /\ worker' = [worker EXCEPT ![w] = AfterCreateFailed(@)]
            /\ UNCHANGED <<pvObjects, phase>>
    /\ UNCHANGED <<claims, deleted, classes, staticVol, queue, backoff>>
    /\ UNCHANGED nonProvVars

\* Step 5, creation never succeeded: delete the backing volume
\* (best effort) and emit a failure event on the claim.
CleanUp(w, deleteOK) ==
    /\ worker[w].pc = "CleaningUp"
    /\ worker' = [worker EXCEPT ![w] =
           [@ EXCEPT !.pc = "Done", !.deleteAttempted = TRUE,
                     !.event = IF deleteOK THEN "ProvisioningFailed"
                               ELSE "ProvisioningCleanupFailed"]]
    /\ UNCHANGED <<claims, phase, deleted, classes, staticVol, pvObjects,
                   queue, backoff>>
    /\ UNCHANGED nonProvVars

\* The cycle is over: the key is released; a claim whose cycle failed
\* re-enters the queue after its backoff.
EndCycle(w) ==
    /\ worker[w].pc = "Done"
    /\ backoff' = IF worker[w].event # None /\ worker[w].key \in PendingClaims
                  THEN backoff \cup {worker[w].key} ELSE backoff
    /\ worker' = [worker EXCEPT ![w] = IdleWorker]
    /\ UNCHANGED <<claims, phase, deleted, classes, staticVol, pvObjects, queue>>
    /\ UNCHANGED nonProvVars

BackoffExpire(c) ==
    /\ c \in backoff
    /\ backoff' = backoff \ {c}
    /\ queue' = queue \cup {c}
    /\ UNCHANGED <<claims, phase, deleted, classes, staticVol, pvObjects, worker>>
    /\ UNCHANGED nonProvVars

\* The periodic resync: every pending claim is reconciled again.
Tick ==
    /\ queue' = queue \cup PendingClaims
    /\ queue' # queue
    /\ UNCHANGED <<claims, phase, deleted, classes, staticVol, pvObjects,
                   backoff, worker>>
    /\ UNCHANGED nonProvVars

\* A variant whose watch handler does not queue the pending claims.
AddClassNoEnqueue(cls) ==
    /\ cls \notin classes
    /\ classes' = classes \cup {cls}
    /\ UNCHANGED <<claims, phase, deleted, staticVol, pvObjects, queue,
                   backoff, worker>>
    /\ UNCHANGED nonProvVars

\* Watch event: a storage class was created.
AddClass(cls) ==
    /\ cls \notin classes
    /\ classes' = classes \cup {cls}
    /\ queue' = queue \cup PendingClaims
    /\ UNCHANGED <<claims, phase, deleted, staticVol, pvObjects, backoff, worker>>
    /\ UNCHANGED nonProvVars

\* Watch event: a volume was added.
AddVolume ==
    /\ staticVol = "absent"
    /\ staticVol' = "available"
    /\ queue' = queue \cup PendingClaims
    /\ UNCHANGED <<claims, phase, deleted, classes, pvObjects, backoff, worker>>
    /\ UNCHANGED nonProvVars

\* A claim is deleted; an in-flight reconciliation is not interrupted, the
\* deletion takes effect at the granularity of the work-queue item.
DeleteClaim(c) ==
    /\ c \notin deleted
    /\ c \notin Processing
    /\ deleted' = deleted \cup {c}
    /\ queue' = queue \ {c}
    /\ backoff' = backoff \ {c}
    /\ UNCHANGED <<claims, phase, classes, staticVol, pvObjects, worker>>
    /\ UNCHANGED nonProvVars

ProvNext ==
    \/ \E w \in Workers, c \in Claims : StartCycle(w, c)
    \/ \E w \in Workers : MatchClass(w)
    \/ \E w \in Workers, ok \in BOOLEAN : ProvisionReturn(w, ok)
    \/ \E w \in Workers, ok \in BOOLEAN : CreateVolume(w, ok)
    \/ \E w \in Workers, ok \in BOOLEAN : CleanUp(w, ok)
    \/ \E w \in Workers : EndCycle(w)
    \/ \E c \in Claims : BackoffExpire(c)
    \/ Tick
    \/ \E cls \in ProvClasses : AddClass(cls)
    \/ AddVolume
    \/ \E c \in Claims : DeleteClaim(c)

vars == <<provVars, selVars, podVars, mntVars, fmtVars, procVars, shareVars,
         statVars, execVars, sockVars, hostVars, valVars, stopVars, csiVars>>

ProvSpecInit == ProvInit /\ SelIdle /\ PodIdle /\ MntIdle /\ FmtIdle /\ ProcIdle
    /\ ShareIdle /\ StatIdle /\ ExecIdle /\ SockIdle
    /\ HostIdle /\ ValIdle /\ StopIdle /\ CsiIdle

ProvSpec == ProvSpecInit /\ [][ProvNext]_vars

(***************************************************************************)
(* SelSpec: SelectClass applied, again and again, to one claim, one set of *)
(* classes and one configured default class name.                          *)
(***************************************************************************)
\* The controller's variables while the matcher is the system under study.
ProvIdle ==
    /\ claims = [c \in Claims |-> [selector |-> None, classRef |-> None]]
    /\ phase = [c \in Claims |-> "Pending"]
    /\ deleted = {}
    /\ classes = {}
    /\ staticVol = "absent"
    /\ pvObjects = {}
    /\ queue = {}
    /\ backoff = {}
    /\ worker = [w \in Workers |-> IdleWorker]

\* None of the specifications that come first is in progress.
OldIdle ==
    /\ ProvIdle /\ SelIdle /\ PodIdle /\ MntIdle /\ FmtIdle /\ ProcIdle
    /\ ShareIdle /\ StatIdle /\ ExecIdle /\ SockIdle

\* A claim has a selector, or an explicit class reference, or neither.
SelClaimKinds ==
    {[selector |-> s, classRef |-> None] : s \in Selectors}
        \cup {[selector |-> None, classRef |-> r] : r \in AllClasses}

\* The default class name may be unset, or name a class that does not exist.
SelDefaults == {None, "aws-slow-zone1", "aws-fast-zone2"}

SelInit ==
    /\ selClaim \in SelClaimKinds
    /\ selClasses \in SUBSET AllClasses
    /\ selDefault \in SelDefaults
    /\ selResult = "unset"
    /\ selPrev = "unset"

SelCandidates ==
    CandidateClasses(selClaim.selector, selClaim.classRef, selClasses)

\* One invocation of SelectClass; every retry invokes it again.
Select ==
    /\ selResult' \in SelectClass(SelCandidates, selDefault)
    /\ selPrev' = selResult
    /\ UNCHANGED <<selClaim, selClasses, selDefault>>
    /\ UNCHANGED nonSelVars

SelNext == Select

SelSpecInit == SelInit /\ ProvIdle /\ PodIdle /\ MntIdle /\ FmtIdle /\ ProcIdle
    /\ ShareIdle /\ StatIdle /\ ExecIdle /\ SockIdle
    /\ HostIdle /\ ValIdle /\ StopIdle /\ CsiIdle

SelSpec == SelSpecInit /\ [][SelNext]_vars

C8_AnyCandidateEachRetry ==
    (Cardinality(SelCandidates) >= 2 /\ selDefault \notin SelCandidates) =>
        /\ selResult # "unset" => selResult \in SelCandidates
        /\ \A cls \in SelCandidates : ENABLED (Select /\ selResult' = cls)

\* A retry returned another class than the invocation before it.
C8_Witness ==
    /\ Cardinality(SelCandidates) >= 2
    /\ selDefault \notin SelCandidates
    /\ selPrev \in SelCandidates
    /\ selResult \in SelCandidates
    /\ selResult # selPrev

(***************************************************************************)
(* PodSpec: the methods of mountPodManager, each a sequence of steps       *)
(* between m.mutex.Lock() and the deferred m.mutex.Unlock().               *)
(***************************************************************************)
\* A variant that takes any value of the label for "true".
LabelValuePresent(labels, key) ==
    IF key \in DOMAIN labels THEN "true" ELSE ""

\* pod.Labels[key]: the value, or "" when the label is absent.
LabelValue(labels, key) ==
    IF key \in DOMAIN labels THEN labels[key] ELSE ""

\* The plugins whose loop iteration adds the pod.
HandledPlugins(pod) ==
    {pluginName \in GetPluginNames :
        LabelValue(pod.labels, "mount." \o pluginName) = "true"}

\* A variant that clears every set that holds the pod.
deletePodLockedClear(cache, uid) ==
    [p \in DOMAIN cache |->
        [u \in (IF uid \in DOMAIN cache[p] THEN {} ELSE DOMAIN cache[p]) |->
            cache[p][u]]]

\* A variant that leaves the old version of the pod in the cache.
deletePodLockedKeep(cache, uid) == cache

\* deletePodLocked: delete(pods, pod.UID) for every plugin's map.
deletePodLocked(cache, uid) ==
    [p \in DOMAIN cache |->
        [u \in (DOMAIN cache[p]) \ {uid} |-> cache[p][u]]]

\* The loop of AddPod over the plugin names: pods[pod.UID] = pod in the map
\* of every plugin the pod handles; a missing map is created.
addPodLocked(cache, pod) ==
    [p \in (DOMAIN cache) \cup HandledPlugins(pod) |->
        IF p \in HandledPlugins(pod)
        THEN [u \in (IF p \in DOMAIN cache THEN DOMAIN cache[p] ELSE {})
                        \cup {pod.uid} |->
                 IF u = pod.uid THEN pod ELSE cache[p][u]]
        ELSE cache[p]]

\* A variant that takes pods of every namespace.
IsWatchedAlways(pod) == TRUE

\* pod.Namespace != m.namespace makes AddPod and DeletePod return at once.
IsWatched(pod) == pod.namespace = WatchedNamespace

\* A variant of the mutex that never blocks.
CanLockAlways(holder) == TRUE

\* sync.Mutex: Lock() proceeds only while nobody holds the mutex.
CanLock(holder) == holder = None

\* A variant that registers a pod whatever its phase.
IsRunningAlways(pod) == TRUE

IsRunning(pod) == pod.phase = "Running"

\* The UIDs in the set the cache holds for a plugin name.
Members(cache, pluginName) ==
    IF pluginName \in DOMAIN cache THEN DOMAIN cache[pluginName] ELSE {}

\* A caller enters AddPod, DeletePod or GetPod.
CallAddPod(t, pod) ==
    /\ pod \in CallerPods(t)
    /\ call[t].pc \in {"idle", "returned"}
    /\ call' = [call EXCEPT ![t] =
           [NoCall EXCEPT !.op = "AddPod", !.pod = pod, !.pc = "lock"]]
    /\ UNCHANGED <<pods, mutex, nonPodVars>>

CallDeletePod(t, pod) ==
    /\ pod \in CallerPods(t)
    /\ call[t].pc \in {"idle", "returned"}
    /\ call' = [call EXCEPT ![t] =
           [NoCall EXCEPT !.op = "DeletePod", !.pod = pod, !.pc = "lock"]]
    /\ UNCHANGED <<pods, mutex, nonPodVars>>

CallGetPod(t, pluginName) ==
    /\ pluginName \in CallerPluginNames(t)
    /\ call[t].pc \in {"idle", "returned"}
    /\ call' = [call EXCEPT ![t] =
           [NoCall EXCEPT !.op = "GetPod", !.pluginName = pluginName,
                          !.pc = "lock"]]
    /\ UNCHANGED <<pods, mutex, nonPodVars>>

\* The plugin names whose set holds a UID.
MembershipsOf(cache, uid) ==
    {pluginName \in AllPluginNames : uid \in Members(cache, pluginName)}

\* m.mutex.Lock()
Lock(t) ==
    /\ call[t].pc = "lock"
    /\ CanLock(mutex)
    /\ mutex' = t
    /\ call' = [call EXCEPT ![t].pc = "locked",
                            ![t].before =
                                IF call[t].op = "GetPod" THEN {}
                                ELSE MembershipsOf(pods, call[t].pod.uid)]
    /\ UNCHANGED <<pods, nonPodVars>>

\* AddPod, lines 65-71: a pod of another namespace is ignored (return, the
\* deferred Unlock runs); otherwise the old version is removed.
AddPodRemoveOld(t) ==
    /\ call[t].op = "AddPod" /\ call[t].pc = "locked"
    /\ IF ~IsWatched(call[t].pod)
       THEN /\ mutex' = None
            /\ call' = [call EXCEPT ![t].pc = "returned"]
            /\ UNCHANGED pods
       ELSE /\ pods' = deletePodLocked(pods, call[t].pod.uid)
            /\ call' = [call EXCEPT ![t].pc = "removed"]
            /\ UNCHANGED mutex
    /\ UNCHANGED nonPodVars

\* AddPod, lines 73-91: a pod that is not running is skipped; a running one
\* is added for every plugin it handles; return, the deferred Unlock runs.
AddPodRegister(t) ==
    /\ call[t].op = "AddPod" /\ call[t].pc = "removed"
    /\ pods' = IF IsRunning(call[t].pod)
               THEN addPodLocked(pods, call[t].pod) ELSE pods
    /\ mutex' = None
    /\ call' = [call EXCEPT ![t].pc = "returned"]
    /\ UNCHANGED nonPodVars

\* DeletePod, lines 102-108.
DeletePodBody(t) ==
    /\ call[t].op = "DeletePod" /\ call[t].pc = "locked"
    /\ pods' = IF ~IsWatched(call[t].pod)
               THEN pods
               ELSE deletePodLocked(pods, call[t].pod.uid)
    /\ mutex' = None
    /\ call' = [call EXCEPT ![t].pc = "returned"]
    /\ UNCHANGED nonPodVars

\* A variant that looks into the sets of all plugins.
GetPodResultsAnyPlugin(cache, pluginName) ==
    IF \A p \in DOMAIN cache : DOMAIN cache[p] = {} THEN {{}}
    ELSE {{cache[p][u]} : <<p, u>> \in
             {pu \in (DOMAIN cache) \X UIDs : pu[2] \in DOMAIN cache[pu[1]]}}

\* What GetPod may return: nil for a missing or empty map, otherwise the
\* first pod of an iteration over the map, whose order is not defined.
GetPodResults(cache, pluginName) ==
    IF Members(cache, pluginName) = {} THEN {{}}
    ELSE {{cache[pluginName][u]} : u \in DOMAIN cache[pluginName]}

\* GetPod, lines 113-125.
GetPodBody(t) ==
    /\ call[t].op = "GetPod" /\ call[t].pc = "locked"
    /\ \E r \in GetPodResults(pods, call[t].pluginName) :
          call' = [call EXCEPT ![t].pc = "returned", ![t].ret = r]
    /\ mutex' = None
    /\ UNCHANGED <<pods, nonPodVars>>

PodNext ==
    \/ \E t \in Callers, pod \in AllPods : CallAddPod(t, pod)
    \/ \E t \in Callers, pod \in AllPods : CallDeletePod(t, pod)
    \/ \E t \in Callers, pluginName \in AllPluginNames : CallGetPod(t, pluginName)
    \/ \E t \in Callers : Lock(t)
    \/ \E t \in Callers : AddPodRemoveOld(t)
    \/ \E t \in Callers : AddPodRegister(t)
    \/ \E t \in Callers : DeletePodBody(t)
    \/ \E t \in Callers : GetPodBody(t)

PodSpecInit == PodIdle /\ ProvIdle /\ SelIdle /\ MntIdle /\ FmtIdle /\ ProcIdle
    /\ ShareIdle /\ StatIdle /\ ExecIdle /\ SockIdle
    /\ HostIdle /\ ValIdle /\ StopIdle /\ CsiIdle

PodSpec == PodSpecInit /\ [][PodNext]_vars

(***************************************************************************)
(* MountSpec: Mount, Unmount and the forwarded methods of the local        *)
(* Mounter (mount_linux.go) and of the execMounter (exec_mount.go).        *)
(***************************************************************************)
\* The option lists of length at most n.
RECURSIVE OptionLists(_)
OptionLists(n) ==
    IF n = 0 THEN {<<>>}
    ELSE OptionLists(n - 1) \cup
         {Append(l, o) : l \in {x \in OptionLists(n - 1) : Len(x) = n - 1},
                         o \in MountOptions}

\* A variant that keeps "bind" and "remount" among the remount options.
isBindKeepAll(options) ==
    [bind |-> \E i \in 1..Len(options) : options[i] = "bind",
     bindRemountOpts |-> <<"remount">> \o options]

\* isBind: whether "bind" is among the options, and "remount" followed by the
\* options that are neither "bind" nor "remount".
isBind(options) ==
    [bind |-> \E i \in 1..Len(options) : options[i] = "bind",
     bindRemountOpts |->
         <<"remount">> \o
         SelectSeq(options, LAMBDA o : o \notin {"bind", "remount"})]

\* strings.Join(options, ",")
RECURSIVE Join(_)
Join(options) ==
    IF Len(options) = 0 THEN ""
    ELSE IF Len(options) = 1 THEN options[1]
    ELSE options[1] \o "," \o Join(Tail(options))

\* makeMountArgs: mount [-t $fstype] [-o $options] [$source] $target
makeMountArgs(source, target, fstype, options) ==
    (IF fstype # "" THEN <<"-t", fstype>> ELSE <<>>)
    \o (IF Len(options) > 0 THEN <<"-o", Join(options)>> ELSE <<>>)
    \o (IF source # "" THEN <<source>> ELSE <<>>)
    \o <<target>>

\* doMount: the command that exec.Command runs, the containerized mounter
\* with the mount command as its first argument when a path is given.
doMount(path, mountCmd, source, target, fstype, options) ==
    [via |-> "exec.Command",
     cmd |-> IF path # "" THEN path ELSE mountCmd,
     args |-> IF path # ""
              THEN <<mountCmd>> \o makeMountArgs(source, target, fstype, options)
              ELSE makeMountArgs(source, target, fstype, options),
     options |-> options,
     ok |-> TRUE]

\* A variant that leaves the filesystem type out of the arguments.
doExecMountNoFstype(source, target, fstype, options) ==
    [via |-> "exec.Run",
     cmd |-> "mount",
     args |-> makeMountArgs(source, target, "", options),
     options |-> options,
     ok |-> TRUE]

\* doExecMount: m.exec.Run("mount", mountArgs, defaultExecTimeout)
doExecMount(source, target, fstype, options) ==
    [via |-> "exec.Run",
     cmd |-> "mount",
     args |-> makeMountArgs(source, target, fstype, options),
     options |-> options,
     ok |-> TRUE]

\* A variant that sends every filesystem type to the containerized mounter.
fsTypesNeedMounterAll == FsTypes

\* The filesystems that need the containerized mounter.
fsTypesNeedMounter == {"nfs", "glusterfs", "ceph", "cifs"}

\* The command of a Mount that is not a bind mount.
PlainMountCommand(impl, fstype, options) ==
    IF impl = "Mounter"
    THEN doMount(IF fstype \in fsTypesNeedMounter THEN mounterPath ELSE "",
                 defaultMountCommand, MountSource, MountTarget, fstype, options)
    ELSE doExecMount(MountSource, MountTarget, fstype, options)

\* The commands of a bind mount: the path of the mounter stays empty.
BindMountCommand(impl, fstype, options) ==
    IF impl = "Mounter"
    THEN doMount("", defaultMountCommand, MountSource, MountTarget, fstype,
                 options)
    ELSE doExecMount(MountSource, MountTarget, fstype, options)

\* The log of the call with one more command and how it ended.
Ran(command, ok) == Append(cmds, [command EXCEPT !.ok = ok])

\* A caller enters Mount.
CallMount(impl, fstype, options) ==
    /\ mcall.pc = "idle"
    /\ mcall' = [NoMountCall EXCEPT !.impl = impl, !.method = "Mount",
                                    !.fstype = fstype, !.options = options,
                                    !.pc = "mount"]
    /\ cmds' = <<>>
    /\ UNCHANGED <<mounterPath, nonMntVars>>

\* A variant in which a failed bind goes on to the remount.
AfterBindIgnoreError(ok) == [pc |-> "remount", err |-> FALSE]

\* Mount after the first command of a bind mount: return its error, or go on.
AfterBind(ok) ==
    IF ok THEN [pc |-> "remount", err |-> FALSE]
    ELSE [pc |-> "returned", err |-> TRUE]

\* Mount, first command: the bind alone for a bind mount, otherwise the
\* whole mount; the command succeeds or fails.
MountFirst(ok) ==
    /\ mcall.method = "Mount" /\ mcall.pc = "mount"
    /\ IF isBind(mcall.options).bind
       THEN /\ cmds' = Ran(BindMountCommand(mcall.impl, mcall.fstype,
                                            <<"bind">>), ok)
            /\ mcall' = [mcall EXCEPT !.pc = AfterBind(ok).pc,
                                      !.err = AfterBind(ok).err]
       ELSE /\ cmds' = Ran(PlainMountCommand(mcall.impl, mcall.fstype,
                                             mcall.options), ok)
            /\ mcall' = [mcall EXCEPT !.pc = "returned", !.err = ~ok]
    /\ UNCHANGED <<mounterPath, nonMntVars>>

\* Mount, second command of a bind mount: the remount with the options.
MountRemount(ok) ==
    /\ mcall.method = "Mount" /\ mcall.pc = "remount"
    /\ cmds' = Ran(BindMountCommand(mcall.impl, mcall.fstype,
                                    isBind(mcall.options).bindRemountOpts), ok)
    /\ mcall' = [mcall EXCEPT !.pc = "returned", !.err = ~ok]
    /\ UNCHANGED <<mounterPath, nonMntVars>>

\* A caller enters Unmount.
CallUnmount(impl) ==
    /\ mcall.pc = "idle"
    /\ mcall' = [NoMountCall EXCEPT !.impl = impl, !.method = "Unmount",
                                    !.pc = "umount"]
    /\ cmds' = <<>>
    /\ UNCHANGED <<mounterPath, nonMntVars>>

\* The command of Unmount: exec.Command("umount", target) in the Mounter,
\* m.exec.Run("umount", {target}) in the execMounter.
UnmountCommand(impl) ==
    [via |-> IF impl = "Mounter" THEN "exec.Command" ELSE "exec.Run",
     cmd |-> "umount",
     args |-> <<MountTarget>>,
     options |-> <<>>,
     ok |-> TRUE]

\* Unmount runs umount once and returns its error.
Unmount(ok) ==
    /\ mcall.method = "Unmount" /\ mcall.pc = "umount"
    /\ cmds' = Ran(UnmountCommand(mcall.impl), ok)
    /\ mcall' = [mcall EXCEPT !.pc = "returned", !.err = ~ok]
    /\ UNCHANGED <<mounterPath, nonMntVars>>

\* The other methods of the execMounter.
ForwardedMethods == Methods \ {"Mount", "Unmount"}

\* A caller enters another method of the execMounter.
CallForwarded(method) ==
    /\ mcall.pc = "idle"
    /\ mcall' = [NoMountCall EXCEPT !.impl = "execMounter", !.method = method,
                                    !.pc = "forward"]
    /\ cmds' = <<>>
    /\ UNCHANGED <<mounterPath, nonMntVars>>

\* A variant that sends MakeShared through the Exec interface.
execMounterTargetExec(method) ==
    IF method \in {"Exec", "MakeShared"} THEN "exec.Run"
    ELSE IF method = "DeviceOpened" THEN "exclusiveOpenFailsOnDevice"
    ELSE IF method = "PathIsDevice" THEN "pathIsDevice"
    ELSE "wrappedMounter"

\* What a method of the execMounter other than Mount and Unmount calls.
execMounterTarget(method) ==
    IF method = "Exec" THEN "exec.Run"
    ELSE IF method = "DeviceOpened" THEN "exclusiveOpenFailsOnDevice"
    ELSE IF method = "PathIsDevice" THEN "pathIsDevice"
    ELSE "wrappedMounter"

\* The method makes its one call and returns what the call returns.
Forward(ok) ==
    /\ mcall.pc = "forward"
    /\ cmds' = Ran([via |-> execMounterTarget(mcall.method),
                     cmd |-> mcall.method,
                     args |-> <<>>,
                     options |-> <<>>,
                     ok |-> TRUE], ok)
    /\ mcall' = [mcall EXCEPT !.pc = "returned", !.err = ~ok]
    /\ UNCHANGED <<mounterPath, nonMntVars>>

\* The caller has taken the result; the mounter is ready for the next call.
MountReturn ==
    /\ mcall.pc = "returned"
    /\ mcall' = NoMountCall
    /\ cmds' = <<>>
    /\ UNCHANGED <<mounterPath, nonMntVars>>

MountNext ==
    \/ \E impl \in Implementations, fstype \in FsTypes,
          options \in OptionLists(MaxOptions) : CallMount(impl, fstype, options)
    \/ \E ok \in BOOLEAN : MountFirst(ok)
    \/ \E ok \in BOOLEAN : MountRemount(ok)
    \/ \E impl \in Implementations : CallUnmount(impl)
    \/ \E ok \in BOOLEAN : Unmount(ok)
    \/ \E method \in ForwardedMethods : CallForwarded(method)
    \/ \E ok \in BOOLEAN : Forward(ok)
    \/ MountReturn

\* Mounter.mounterPath is fixed when the Mounter is made.
MntInit ==
    /\ mounterPath \in MounterPaths
    /\ mcall = NoMountCall
    /\ cmds = <<>>

MountSpecInit == MntInit /\ ProvIdle /\ SelIdle /\ PodIdle /\ FmtIdle /\ ProcIdle
    /\ ShareIdle /\ StatIdle /\ ExecIdle /\ SockIdle
    /\ HostIdle /\ ValIdle /\ StopIdle /\ CsiIdle

MountSpec == MountSpecInit /\ [][MountNext]_vars

(***************************************************************************)
(* FormatSpec: formatAndMount, one step for each command it runs.          *)
(***************************************************************************)
\* strings.TrimSuffix(output, "\n")
TrimSuffixNewline(output) ==
    IF Len(output) > 0 /\ output[Len(output)] = "\n"
    THEN SubSeq(output, 1, Len(output) - 1)
    ELSE output

\* The text of a piece of output that holds no line end.
RECURSIVE LineText(_)
LineText(output) ==
    IF Len(output) = 0 THEN "" ELSE Head(output) \o LineText(Tail(output))

\* strings.Split(output, "\n")
RECURSIVE SplitLines(_)
SplitLines(output) ==
    IF \A i \in 1..Len(output) : output[i] # "\n"
    THEN <<LineText(output)>>
    ELSE LET first == CHOOSE i \in 1..Len(output) :
                          /\ output[i] = "\n"
                          /\ \A j \in 1..(i - 1) : output[j] # "\n"
         IN  <<LineText(SubSeq(output, 1, first - 1))>>
             \o SplitLines(SubSeq(output, first + 1, Len(output)))

\* A variant that takes an empty first line for an unformatted disk.
getDiskFormatFirstLine(output) ==
    SplitLines(TrimSuffixNewline(output))[1]

\* getDiskFormat, after lsblk succeeded: the first line when it is not
\* empty, "" for a single empty line, otherwise a device with dependent
\* devices.
getDiskFormat(output) ==
    LET lines == SplitLines(TrimSuffixNewline(output))
    IN  IF lines[1] # "" THEN lines[1]
        ELSE IF Len(lines) = 1 THEN ""
        ELSE "unknown data, probably partitions"

\* A variant that gives up on every exit status from 4 on.
FsckFatalFromUncorrected(outcome) ==
    outcome.kind = "ExitError" /\ outcome.status >= fsckErrorsUncorrected

\* The one outcome of fsck that makes formatAndMount return: an exit with
\* the status fsckErrorsUncorrected.
FsckFatal(outcome) ==
    outcome.kind = "ExitError" /\ outcome.status = fsckErrorsUncorrected

\* An entry of the log: the tool, the command and its arguments, the
\* filesystem type and options of a mount, and how the command ended.
Command(tool, cmd, args, ok) ==
    [tool |-> tool, cmd |-> cmd, args |-> args, ok |-> ok,
     fstype |-> "", options |-> <<>>, outcome |-> None, output |-> <<>>]

\* A caller enters formatAndMount; "defaults" is added to the options.
CallFormatAndMount(fstype, options) ==
    /\ fcall.pc = "idle"
    /\ fcall' = [NoFormatCall EXCEPT !.fstype = fstype,
                                     !.mountFstype = fstype,
                                     !.options = Append(options, "defaults"),
                                     !.pc = "fsck"]
    /\ fcmds' = <<>>
    /\ UNCHANGED nonFmtVars

\* mounter.Exec.Run("fsck", {"-a", source}) and the switch on its error.
Fsck(outcome) ==
    /\ fcall.pc = "fsck"
    /\ fcmds' = Append(fcmds,
           [Command("fsck", "fsck", <<"-a", MountSource>>, outcome.kind = "nil")
               EXCEPT !.outcome = outcome])
    /\ fcall' = IF FsckFatal(outcome)
                THEN [fcall EXCEPT !.pc = "returned", !.ret = "fsckError"]
                ELSE [fcall EXCEPT !.pc = "mount"]
    /\ UNCHANGED nonFmtVars

\* mounter.Interface.Mount(source, target, fstype, options), first attempt.
FormatMount(ok) ==
    /\ fcall.pc = "mount"
    /\ fcmds' = Append(fcmds,
           [Command("mount", "Interface.Mount", <<MountSource, MountTarget>>, ok)
               EXCEPT !.fstype = fcall.mountFstype, !.options = fcall.options])
    /\ fcall' = IF ok
                THEN [fcall EXCEPT !.pc = "returned", !.ret = "nil"]
                ELSE [fcall EXCEPT !.pc = "getDiskFormat"]
    /\ UNCHANGED nonFmtVars

\* getDiskFormat fails: lsblk returned an error, which the call returns.
ProbeFails ==
    /\ fcall.pc = "getDiskFormat"
    /\ fcmds' = Append(fcmds,
           Command("lsblk", "lsblk", <<"-n", "-o", "FSTYPE", MountSource>>, FALSE))
    /\ fcall' = [fcall EXCEPT !.pc = "returned", !.ret = "lsblkError"]
    /\ UNCHANGED nonFmtVars

\* A variant that always formats as ext4.
FormatFstypeDefault(fstype) == "ext4"

\* The type to format with: the caller's, ext4 when none is given.
FormatFstype(fstype) == IF fstype = "" THEN "ext4" ELSE fstype

\* A variant that reports a conflict also when no type was asked for.
FormattedResultStrict(fstype, existingFormat) ==
    IF fstype = existingFormat THEN "mountErr" ELSE "formatConflict"

\* What the call returns when the mount failed on a formatted disk: the
\* mount error, or an error that names the type asked for and the existing
\* one.
FormattedResult(fstype, existingFormat) ==
    IF fstype = "" \/ fstype = existingFormat THEN "mountErr"
    ELSE "formatConflict"

\* getDiskFormat succeeds. An unformatted disk is formatted next, as ext4
\* when no type was asked for. A formatted one ends the call, with the mount
\* error when no type or the existing one was asked for and with a conflict
\* error otherwise.
Probe(output) ==
    /\ fcall.pc = "getDiskFormat"
    /\ fcmds' = Append(fcmds,
           [Command("lsblk", "lsblk", <<"-n", "-o", "FSTYPE", MountSource>>, TRUE)
               EXCEPT !.output = output])
    /\ LET existingFormat == getDiskFormat(output)
       IN  fcall' =
             IF existingFormat = ""
             THEN [fcall EXCEPT !.pc = "mkfs",
                                !.mountFstype = FormatFstype(fcall.fstype)]
             ELSE [fcall EXCEPT !.pc = "returned",
                                !.existingFormat = existingFormat,
                                !.ret = FormattedResult(fcall.fstype,
                                                        existingFormat)]
    /\ UNCHANGED nonFmtVars

\* The arguments of mkfs: -F for ext4 and ext3.
MkfsArgs(fstype) ==
    IF fstype \in {"ext4", "ext3"} THEN <<"-F", MountSource>>
    ELSE <<MountSource>>

\* mounter.Exec.Run("mkfs."+fstype, args): on success the mount is tried
\* again, otherwise the error is returned.
Mkfs(ok) ==
    /\ fcall.pc = "mkfs"
    /\ fcmds' = Append(fcmds,
           [Command("mkfs", "mkfs." \o fcall.mountFstype,
                    MkfsArgs(fcall.mountFstype), ok)
               EXCEPT !.fstype = fcall.mountFstype])
    /\ fcall' = IF ok
                THEN [fcall EXCEPT !.pc = "mountAgain"]
                ELSE [fcall EXCEPT !.pc = "returned", !.ret = "mkfsError"]
    /\ UNCHANGED nonFmtVars

\* The second mount, whose result the call returns.
FormatMountAgain(ok) ==
    /\ fcall.pc = "mountAgain"
    /\ fcmds' = Append(fcmds,
           [Command("mount", "Interface.Mount", <<MountSource, MountTarget>>, ok)
               EXCEPT !.fstype = fcall.mountFstype, !.options = fcall.options])
    /\ fcall' = [fcall EXCEPT !.pc = "returned",
                              !.ret = IF ok THEN "nil" ELSE "mountErr"]
    /\ UNCHANGED nonFmtVars

\* The caller has taken the result.
FormatReturn ==
    /\ fcall.pc = "returned"
    /\ fcall' = NoFormatCall
    /\ fcmds' = <<>>
    /\ UNCHANGED nonFmtVars

FormatNext ==
    \/ \E fstype \in FormatFsTypes, options \in FormatOptions :
          CallFormatAndMount(fstype, options)
    \/ \E outcome \in FsckOutcomes : Fsck(outcome)
    \/ \E ok \in BOOLEAN : FormatMount(ok)
    \/ ProbeFails
    \/ \E output \in LsblkOutputs : Probe(output)
    \/ \E ok \in BOOLEAN : Mkfs(ok)
    \/ \E ok \in BOOLEAN : FormatMountAgain(ok)
    \/ FormatReturn

FormatSpecInit == FmtIdle /\ ProvIdle /\ SelIdle /\ PodIdle /\ MntIdle /\ ProcIdle
    /\ ShareIdle /\ StatIdle /\ ExecIdle /\ SockIdle
    /\ HostIdle /\ ValIdle /\ StopIdle /\ CsiIdle

FormatSpec == FormatSpecInit /\ [][FormatNext]_vars

(***************************************************************************)
(* ListSpec: listProcMounts reads /proc/mounts while the kernel changes it. *)
(***************************************************************************)
\* hash.Sum32() of the lines written to the FNV-1a hash: a value that the
\* text determines and that some different texts share; here the texts with
\* the same number of lines share it.
Sum32(lines) == Len(lines)

\* strings.Split(fields[3], ",")
RECURSIVE SplitOpts(_)
SplitOpts(opts) ==
    IF \A k \in 1..Len(opts) : opts[k] # ","
    THEN <<LineText(opts)>>
    ELSE LET first == CHOOSE k \in 1..Len(opts) :
                          /\ opts[k] = ","
                          /\ \A j \in 1..(k - 1) : opts[j] # ","
         IN  <<LineText(SubSeq(opts, 1, first - 1))>>
             \o SplitOpts(SubSeq(opts, first + 1, Len(opts)))

\* strconv.Atoi of the numbers that occur in the table.
Atoi(text) ==
    IF text = "0" THEN [err |-> FALSE, n |-> 0]
    ELSE IF text = "1" THEN [err |-> FALSE, n |-> 1]
    ELSE IF text = "2" THEN [err |-> FALSE, n |-> 2]
    ELSE [err |-> TRUE, n |-> 0]

\* The MountPoint struct of a line.
MountPointOf(fields) ==
    [Device |-> fields[1], Path |-> fields[2], Type |-> fields[3],
     Opts |-> SplitOpts(fields[4]),
     Freq |-> Atoi(fields[5]).n, Pass |-> Atoi(fields[6]).n]

\* readProcMountsFrom: an error for a line with a wrong number of fields
\* and, when the mount points are asked for, for a frequency or pass that is
\* no number; otherwise the hash of the lines and the mount points.
readProcMountsFrom(file, withOut) ==
    IF \E k \in 1..Len(file) : Len(file[k]) # expectedNumFieldsPerLine
    THEN [err |-> TRUE, hash |-> 0, mps |-> <<>>]
    ELSE IF withOut /\ \E k \in 1..Len(file) :
                          Atoi(file[k][5]).err \/ Atoi(file[k][6]).err
    THEN [err |-> TRUE, hash |-> 0, mps |-> <<>>]
    ELSE [err |-> FALSE,
          hash |-> Sum32(file),
          mps |-> IF withOut THEN [k \in 1..Len(file) |-> MountPointOf(file[k])]
                  ELSE <<>>]

\* readProcMounts: os.Open may fail; otherwise the file is read.
readProcMounts(file, withOut, opens) ==
    IF opens THEN readProcMountsFrom(file, withOut)
    ELSE [err |-> TRUE, hash |-> 0, mps |-> <<>>]

\* The kernel changes the mount table.
ChangeProcMounts(table) ==
    /\ table # procMounts
    /\ procMounts' = table
    /\ UNCHANGED <<lcall, nonProcVars>>

\* A caller enters listProcMounts.
CallList ==
    /\ lcall.pc = "idle"
    /\ lcall' = [NoListCall EXCEPT !.pc = "first"]
    /\ UNCHANGED <<procMounts, nonProcVars>>

\* The first read, for the hash alone.
ListFirstRead(opens) ==
    /\ lcall.pc = "first"
    /\ LET r == readProcMounts(procMounts, FALSE, opens)
       IN  lcall' =
             IF r.err
             THEN [lcall EXCEPT !.pc = "returned", !.ret = "readError",
                                !.reads = Append(@, [file |-> procMounts,
                                                     err |-> TRUE])]
             ELSE [lcall EXCEPT !.pc = "loop", !.hash1 = r.hash,
                                !.reads = Append(@, [file |-> procMounts,
                                                     err |-> FALSE])]
    /\ UNCHANGED <<procMounts, nonProcVars>>

\* A variant that takes the second read whatever its hash.
SameSnapshotAlways(hash1, hash2) == TRUE

\* hash1 == hash2
SameSnapshot(hash1, hash2) == hash1 = hash2

\* One turn of the loop: read again with the mount points; return them when
\* the hashes agree, otherwise keep the new hash for the next turn.
ListRead(opens) ==
    /\ lcall.pc = "loop"
    /\ lcall.i < maxListTries
    /\ LET r == readProcMounts(procMounts, TRUE, opens)
           log == Append(lcall.reads, [file |-> procMounts, err |-> r.err])
       IN  lcall' =
             IF r.err
             THEN [lcall EXCEPT !.pc = "returned", !.ret = "readError",
                                !.reads = log]
             ELSE IF SameSnapshot(lcall.hash1, r.hash)
             THEN [lcall EXCEPT !.pc = "returned", !.ret = "nil",
                                !.mps = r.mps, !.reads = log]
             ELSE [lcall EXCEPT !.hash1 = r.hash, !.i = @ + 1, !.reads = log]
    /\ UNCHANGED <<procMounts, nonProcVars>>

\* The loop is over: "failed to get a consistent snapshot".
ListGiveUp ==
    /\ lcall.pc = "loop"
    /\ lcall.i >= maxListTries
    /\ lcall' = [lcall EXCEPT !.pc = "returned", !.ret = "noConsistentSnapshot"]
    /\ UNCHANGED <<procMounts, nonProcVars>>

\* The caller has taken the result.
ListReturn ==
    /\ lcall.pc = "returned"
    /\ lcall' = NoListCall
    /\ UNCHANGED <<procMounts, nonProcVars>>

ListNext ==
    \/ \E table \in ProcMountsTables : ChangeProcMounts(table)
    \/ CallList
    \/ \E opens \in BOOLEAN : ListFirstRead(opens)
    \/ \E opens \in BOOLEAN : ListRead(opens)
    \/ ListGiveUp
    \/ ListReturn

ListSpecInit == ProcIdle /\ ProvIdle /\ SelIdle /\ PodIdle /\ MntIdle /\ FmtIdle
    /\ ShareIdle /\ StatIdle /\ ExecIdle /\ SockIdle
    /\ HostIdle /\ ValIdle /\ StopIdle /\ CsiIdle

ListSpec == ListSpecInit /\ [][ListNext]_vars

(***************************************************************************)
(* ShareSpec: isShared and MakeShared read /proc/self/mountinfo while the  *)
(* kernel changes it, and run mount commands that change it.               *)
(***************************************************************************)
\* strings.HasPrefix
HasPrefix(text, prefix) ==
    /\ Len(prefix) <= Len(text)
    /\ SubSeq(text, 1, Len(prefix)) = prefix

\* The optional fields of a line: fields[6], fields[7], ... up to the
\* separator or the end of the line.
RECURSIVE OptionalFrom(_, _)
OptionalFrom(fields, i) ==
    IF i <= Len(fields) /\ fields[i] # <<"-">>
    THEN <<fields[i]>> \o OptionalFrom(fields, i + 1)
    ELSE <<>>

\* parseMountInfo: an error when the file cannot be opened or a line has
\* fewer than 7 fields, otherwise root, mount point and optional fields of
\* every line.
parseMountInfo(file, opens) ==
    IF ~opens \/ \E k \in 1..Len(file) : Len(file[k]) < 7
    THEN [err |-> TRUE, infos |-> <<>>]
    ELSE [err |-> FALSE,
          infos |-> [k \in 1..Len(file) |->
                        [root |-> file[k][4],
                         mountPoint |-> file[k][5],
                         optional |-> OptionalFrom(file[k], 7)]]]

\* A variant that takes the first entry whose mount point begins the path.
FindInfoForward(infos, path) ==
    LET hits == {k \in 1..Len(infos) : HasPrefix(path, infos[k].mountPoint)}
    IN  IF hits = {} THEN 0
        ELSE CHOOSE k \in hits : \A j \in hits : j >= k

\* The loop of isShared: from the last entry backward, the index of the
\* first one whose mount point begins the path; 0 when there is none.
FindInfo(infos, path) ==
    LET hits == {k \in 1..Len(infos) : HasPrefix(path, infos[k].mountPoint)}
    IN  IF hits = {} THEN 0
        ELSE CHOOSE k \in hits : \A j \in hits : j <= k

\* isShared, once getMountInfo has returned infos.
isShared(infos, path) ==
    LET i == FindInfo(infos, path)
    IN  IF i = 0 THEN [err |-> TRUE, shared |-> FALSE]
        ELSE [err |-> FALSE,
              shared |-> \E k \in 1..Len(infos[i].optional) :
                             HasPrefix(infos[i].optional[k], <<"shared:">>)]

\* Something else mounts or unmounts.
ChangeMountInfo(table) ==
    /\ table # mountInfo
    /\ mountInfo' = table
    /\ made' = {}
    /\ scall' = [scall EXCEPT !.second = FALSE]
    /\ UNCHANGED <<nonShareVars>>

CallIsShared(path) ==
    /\ scall.pc = "idle"
    /\ scall' = [NoShareCall EXCEPT !.op = "isShared", !.path = path,
                                    !.pc = "first"]
    /\ UNCHANGED <<mountInfo, made, nonShareVars>>

\* Mounter.MakeShared; the call is a second one when the latest MakeShared
\* left this path shared and nothing else changed the mounts since.
CallMakeShared(path) ==
    /\ scall.pc = "idle"
    /\ scall' = [NoShareCall EXCEPT !.op = "MakeShared", !.path = path,
                                    !.pc = "first", !.second = (made = {path})]
    /\ UNCHANGED <<mountInfo, made, nonShareVars>>

\* The path a call of MakeShared leaves shared when it returns.
MadeAfter(c) ==
    IF c.op = "MakeShared" /\ c.pc = "returned"
    THEN (IF c.ret = "nil" THEN {c.path} ELSE {})
    ELSE made

\* getMountInfo: the first parse.
ShareFirstParse(opens) ==
    /\ scall.pc = "first"
    /\ LET r == parseMountInfo(mountInfo, opens)
       IN  scall' =
             IF r.err
             THEN [scall EXCEPT !.pc = "returned", !.ret = "parseError"]
             ELSE [scall EXCEPT !.pc = "loop", !.oldInfo = r.infos,
                                !.file = mountInfo]
    /\ made' = MadeAfter(scall')
    /\ UNCHANGED <<mountInfo, nonShareVars>>

\* A variant that never finds the path shared.
AlreadySharedNever(shared) == FALSE

\* if shared { return nil }
AlreadyShared(shared) == shared

\* What isShared and doMakeShared do with the infos getMountInfo returned.
AfterGetMountInfo(infos) ==
    LET r == isShared(infos, scall.path)
    IN  IF r.err
        THEN [scall EXCEPT !.pc = "returned", !.ret = "cannotFindMountPoint"]
        ELSE IF scall.op = "isShared"
        THEN [scall EXCEPT !.pc = "returned",
                           !.ret = IF r.shared THEN "true" ELSE "false"]
        ELSE IF AlreadyShared(r.shared)
        THEN [scall EXCEPT !.pc = "returned", !.ret = "nil"]
        ELSE [scall EXCEPT !.pc = "bind"]

\* A variant that takes the second parse whatever it holds.
SameInfoAlways(oldInfo, newInfo) == TRUE

\* reflect.DeepEqual(oldInfo, newInfo)
SameInfo(oldInfo, newInfo) == oldInfo = newInfo

\* getMountInfo: one turn of its loop, which has no limit; when the parse
\* equals the previous one the caller goes on with it.
ShareParse(opens) ==
    /\ scall.pc = "loop"
    /\ LET r == parseMountInfo(mountInfo, opens)
       IN  scall' =
             IF r.err
             THEN [scall EXCEPT !.pc = "returned", !.ret = "parseError"]
             ELSE IF SameInfo(scall.oldInfo, r.infos)
             THEN [AfterGetMountInfo(scall.oldInfo) EXCEPT
                       !.oldInfo = scall.oldInfo, !.file = mountInfo]
             ELSE [scall EXCEPT !.oldInfo = r.infos, !.file = mountInfo]
    /\ made' = MadeAfter(scall')
    /\ UNCHANGED <<mountInfo, nonShareVars>>

\* What "mount --bind path path" leaves in mountinfo: one more mount on the
\* path, listed last, private as the mount it was made from.
BindEffect(file, path) == Append(file, MountInfoLine(path, <<>>, DevSda))

\* The last line of the file that is a mount on the path; 0 when none is.
TopMount(file, path) ==
    LET on == {k \in 1..Len(file) : Len(file[k]) >= 7 /\ file[k][5] = path}
    IN  IF on = {} THEN 0 ELSE CHOOSE k \in on : \A j \in on : j <= k

\* What "mount --make-rshared path" leaves in mountinfo: the mount on the
\* path is in a peer group.
MakeRSharedEffect(file, path) ==
    [file EXCEPT ![TopMount(file, path)] =
        IF \E k \in 1..Len(OptionalFrom(@, 7)) :
               HasPrefix(OptionalFrom(@, 7)[k], <<"shared:">>)
        THEN @
        ELSE SubSeq(@, 1, 6) \o <<SharedTag>> \o SubSeq(@, 7, Len(@))]

\* doMakeShared: mount --bind path path
ShareBind(ok) ==
    /\ scall.pc = "bind"
    /\ ok => Len(mountInfo) < MaxInfoLines
    /\ scall' =
         [scall EXCEPT
            !.cmds = Append(@, [cmd |-> defaultMountCommand,
                                args |-> <<"--bind", scall.path, scall.path>>,
                                ok |-> ok]),
            !.pc = IF ok THEN "rshared" ELSE "returned",
            !.ret = IF ok THEN @ ELSE "bindError"]
    /\ mountInfo' = IF ok THEN BindEffect(mountInfo, scall.path) ELSE mountInfo
    /\ made' = MadeAfter(scall')
    /\ UNCHANGED <<nonShareVars>>

\* doMakeShared: mount --make-rshared path
ShareMakeRShared(ok) ==
    /\ scall.pc = "rshared"
    /\ ok => TopMount(mountInfo, scall.path) # 0
    /\ scall' =
         [scall EXCEPT
            !.cmds = Append(@, [cmd |-> defaultMountCommand,
                                args |-> <<"--make-rshared", scall.path>>,
                                ok |-> ok]),
            !.pc = "returned",
            !.ret = IF ok THEN "nil" ELSE "makeSharedError"]
    /\ mountInfo' = IF ok THEN MakeRSharedEffect(mountInfo, scall.path)
                    ELSE mountInfo
    /\ made' = MadeAfter(scall')
    /\ UNCHANGED <<nonShareVars>>

\* The caller has taken the result.
ShareReturn ==
    /\ scall.pc = "returned"
    /\ scall' = NoShareCall
    /\ UNCHANGED <<mountInfo, made, nonShareVars>>

ShareNext ==
    \/ \E table \in MountInfoTables : ChangeMountInfo(table)
    \/ \E path \in SharePaths : CallIsShared(path)
    \/ \E path \in SharePaths : CallMakeShared(path)
    \/ \E opens \in BOOLEAN : ShareFirstParse(opens)
    \/ \E opens \in BOOLEAN : ShareParse(opens)
    \/ \E ok \in BOOLEAN : ShareBind(ok)
    \/ \E ok \in BOOLEAN : ShareMakeRShared(ok)
    \/ ShareReturn

ShareSpecInit ==
    ShareIdle /\ ProvIdle /\ SelIdle /\ PodIdle /\ MntIdle /\ FmtIdle
    /\ ProcIdle /\ StatIdle /\ ExecIdle /\ SockIdle
    /\ HostIdle /\ ValIdle /\ StopIdle /\ CsiIdle

ShareSpec == ShareSpecInit /\ [][ShareNext]_vars

\* The calls keep running: each step of a call in progress is taken sooner
\* or later. Nothing obliges the kernel to change or to stop changing the
\* mounts.
ShareFairness ==
    /\ WF_vars(\E opens \in BOOLEAN : ShareFirstParse(opens))
    /\ WF_vars(\E opens \in BOOLEAN : ShareParse(opens))
    /\ WF_vars(\E ok \in BOOLEAN : ShareBind(ok))
    /\ WF_vars(\E ok \in BOOLEAN : ShareMakeRShared(ok))

ShareFairSpecInit ==
    ShareIdle /\ ProvIdle /\ SelIdle /\ PodIdle /\ MntIdle /\ FmtIdle
    /\ ProcIdle /\ StatIdle /\ ExecIdle /\ SockIdle
    /\ HostIdle /\ ValIdle /\ StopIdle /\ CsiIdle

ShareFairSpec == ShareFairSpecInit /\ [][ShareNext]_vars /\ ShareFairness

(***************************************************************************)
(* StatSpec: Mount, Unmount and IsLikelyNotMountPoint of the Mounter on    *)
(* one path, one call after the other, with the kernel's mounts on it.     *)
(***************************************************************************)
\* A variant in which stat does not see what is mounted on the path.
StatUnderlying(fs) ==
    IF fs.kind = "missing" THEN [err |-> TRUE, Dev |-> 0]
    ELSE [err |-> FALSE, Dev |-> ParentDev]

\* os.Stat(file): fails when there is no such path; the device is the one
\* of the topmost mount on the path, or the one of the directory that holds
\* the path when nothing is mounted on it.
Stat(fs) ==
    IF fs.kind = "missing" THEN [err |-> TRUE, Dev |-> 0]
    ELSE [err |-> FALSE,
          Dev |-> IF fs.stack = <<>> THEN ParentDev
                  ELSE fs.stack[Len(fs.stack)]]

\* os.Lstat(file + "/.."): fails unless the path is a directory; the device
\* is the one of the directory that holds the path.
LstatParent(fs) ==
    IF fs.kind # "dir" THEN [err |-> TRUE, Dev |-> 0]
    ELSE [err |-> FALSE, Dev |-> ParentDev]

\* A variant that never finds a mount point.
IsMountPointNever(stat, rootStat) == FALSE

\* stat.Dev != rootStat.Dev
IsMountPointByDev(stat, rootStat) == stat.Dev # rootStat.Dev

\* IsNotMountPoint
IsNotMountPoint(fs) ==
    IF Stat(fs).err THEN [notMnt |-> TRUE, err |-> TRUE]
    ELSE IF LstatParent(fs).err THEN [notMnt |-> TRUE, err |-> TRUE]
    ELSE IF IsMountPointByDev(Stat(fs), LstatParent(fs))
    THEN [notMnt |-> FALSE, err |-> FALSE]
    ELSE [notMnt |-> TRUE, err |-> FALSE]

\* The record of a call in the log.
Logged(entry) == [log |-> Append(tcall.log, entry)]

\* Mounter.Mount of a source that lies on device dev. The first command
\* mounts, and can succeed only on a directory; a bind mount is followed by
\* the remount, which changes options only. The kernel puts the new mount
\* on top of what is mounted on the path.
StatMount(dev, options, ok1, ok2) ==
    /\ Len(tcall.log) < MaxStatOps
    /\ ok1 => (fsState.kind = "dir" /\ Len(fsState.stack) < MaxStack)
    /\ (~isBind(options).bind \/ ~ok1) => ok2
    /\ fsState' = IF ok1 THEN [fsState EXCEPT !.stack = Append(@, dev)]
                  ELSE fsState
    /\ tcall' = Logged([op |-> "Mount", err |-> ~(ok1 /\ ok2), dev |-> dev,
                        notMnt |-> IsNotMountPoint(fsState).notMnt,
                        fs |-> fsState])
    /\ UNCHANGED nonStatVars

\* Mounter.Unmount: umount takes the topmost mount off the path, and fails
\* when there is none.
StatUnmount(ok) ==
    /\ Len(tcall.log) < MaxStatOps
    /\ ok => fsState.stack # <<>>
    /\ fsState' = IF ok
                  THEN [fsState EXCEPT
                           !.stack = SubSeq(@, 1, Len(@) - 1)]
                  ELSE fsState
    /\ tcall' = Logged([op |-> "Unmount", err |-> ~ok, dev |-> 0,
                        notMnt |-> FALSE, fs |-> fsState])
    /\ UNCHANGED nonStatVars

\* Mounter.IsLikelyNotMountPoint
StatIsLikelyNotMountPoint ==
    /\ Len(tcall.log) < MaxStatOps
    /\ tcall' = Logged([op |-> "IsLikelyNotMountPoint",
                        err |-> IsNotMountPoint(fsState).err, dev |-> 0,
                        notMnt |-> IsNotMountPoint(fsState).notMnt,
                        fs |-> fsState])
    /\ UNCHANGED <<fsState, nonStatVars>>

\* Something else creates or removes the path while nothing is mounted on
\* it, or mounts or unmounts on it.
StatOther(fs) ==
    /\ Len(tcall.log) < MaxStatOps
    /\ fs # fsState
    /\ \/ fsState.stack = <<>> /\ fs.stack = <<>>
       \/ /\ fs.kind = "dir" /\ fsState.kind = "dir"
          /\ \/ \E d \in Devs : fs.stack = Append(fsState.stack, d)
             \/ /\ fsState.stack # <<>>
                /\ fs.stack = SubSeq(fsState.stack, 1, Len(fsState.stack) - 1)
    /\ fsState' = fs
    /\ tcall' = Logged([op |-> "other", err |-> FALSE, dev |-> 0,
                        notMnt |-> FALSE, fs |-> fsState])
    /\ UNCHANGED nonStatVars

\* The mounts that may be stacked on the path, bottom first.
Stacks ==
    {<<>>} \cup {<<d>> : d \in Devs} \cup {<<d, e>> : d \in Devs, e \in Devs}

\* The states of the path.
FsStates ==
    {[kind |-> k, stack |-> <<>>] : k \in PathKinds}
    \cup {[kind |-> "dir", stack |-> st] : st \in Stacks}

StatInit ==
    /\ fsState \in {fs \in FsStates : Len(fs.stack) <= 1}
    /\ tcall = NoStatCall

StatNext ==
    \/ \E dev \in Devs, options \in StatMountOptions, ok1 \in BOOLEAN,
          ok2 \in BOOLEAN : StatMount(dev, options, ok1, ok2)
    \/ \E ok \in BOOLEAN : StatUnmount(ok)
    \/ StatIsLikelyNotMountPoint
    \/ \E fs \in FsStates : StatOther(fs)

StatSpecInit ==
    StatInit /\ ProvIdle /\ SelIdle /\ PodIdle /\ MntIdle /\ FmtIdle
    /\ ProcIdle /\ ShareIdle /\ ExecIdle /\ SockIdle
    /\ HostIdle /\ ValIdle /\ StopIdle /\ CsiIdle

StatSpec == StatSpecInit /\ [][StatNext]_vars

(***************************************************************************)
(* ExecSpec: ExecService.ExecSync of the helper process (volumeexec) and   *)
(* grpcExec.Run, the kubelet's client of it.                               *)
(***************************************************************************)
\* ExecSync: an error of doExec is the error of the RPC, with no response;
\* otherwise the response carries the exit code and what was written.
ExecSync(result, writes) ==
    IF result.err
    THEN [NoExecResponse EXCEPT !.err = TRUE]
    ELSE [err |-> FALSE, ExitCode |-> result.exitcode,
          Stdout |-> writes.stdout, Stderr |-> writes.stderr]

\* A variant that reports every non-zero exit code as 1.
grpcExecRunCodeOne(response) ==
    IF response.err THEN [out |-> <<>>, kind |-> "rpcError", code |-> 0]
    ELSE IF response.ExitCode # 0
    THEN [out |-> response.Stdout \o response.Stderr,
          kind |-> "CodeExitError", code |-> 1]
    ELSE [out |-> response.Stdout \o response.Stderr,
          kind |-> "nil", code |-> 0]

\* grpcExec.Run after the RPC: its error with no output; otherwise stdout
\* followed by stderr, with a CodeExitError of the exit code when that is
\* not 0.
grpcExecRun(response) ==
    IF response.err THEN [out |-> <<>>, kind |-> "rpcError", code |-> 0]
    ELSE IF response.ExitCode # 0
    THEN [out |-> response.Stdout \o response.Stderr,
          kind |-> "CodeExitError", code |-> response.ExitCode]
    ELSE [out |-> response.Stdout \o response.Stderr,
          kind |-> "nil", code |-> 0]

\* grpcExec.Run: the request holds the command and its arguments and
\* nothing else, so its Timeout is 0.
grpcExecRequest(cmd) == [Cmd |-> cmd, Timeout |-> 0]

\* A client sends a request; the command it names will behave in some way.
CallExecSync(client, cmd, timeout, behaviour, writes) ==
    /\ ecall.pc = "idle"
    /\ client = "grpcExec" => (cmd # <<>> /\ timeout = 0)
    /\ behaviour = "startError" => writes = NoOutput
    /\ LET req == IF client = "grpcExec" THEN grpcExecRequest(cmd)
                  ELSE [Cmd |-> cmd, Timeout |-> timeout]
       IN  ecall' = [NoExecCall EXCEPT !.pc = "doExec", !.client = client,
                                       !.cmd = req.Cmd,
                                       !.timeout = req.Timeout,
                                       !.behaviour = behaviour,
                                       !.writes = writes]
    /\ UNCHANGED nonExecVars

\* doExec up to the wait: no command is an error; otherwise the command is
\* run in the background and, when timeout > 0, a timer is started that
\* will stop it.
ExecStart ==
    /\ ecall.pc = "doExec"
    /\ ecall' =
         IF Len(ecall.cmd) = 0
         THEN [ecall EXCEPT !.pc = "returned",
                            !.result = [err |-> TRUE, exitcode |-> 0],
                            !.failure = TRUE,
                            !.response =
                                ExecSync([err |-> TRUE, exitcode |-> 0],
                                         NoOutput),
                            !.reply =
                                IF ecall.client = "grpcExec"
                                THEN grpcExecRun(
                                         ExecSync([err |-> TRUE, exitcode |-> 0],
                                                  NoOutput))
                                ELSE NoExecReply]
         ELSE [ecall EXCEPT !.pc = "waiting",
                            !.process = IF ecall.behaviour = "startError"
                                        THEN "failed" ELSE "running",
                            !.timer = IF ecall.timeout > 0 THEN "armed"
                                      ELSE "none"]
    /\ UNCHANGED nonExecVars

\* The command ends by itself, unless it is one that never does.
ProcessExits ==
    /\ ecall.process = "running"
    /\ ecall.behaviour \in Exits
    /\ ecall' = [ecall EXCEPT !.process = ecall.behaviour]
    /\ UNCHANGED nonExecVars

\* The timeout has passed: the timer's function calls c.Stop(), which kills
\* the command if it still runs.
TimerFires ==
    /\ ecall.timer = "armed"
    /\ ecall' = [ecall EXCEPT !.timer = "fired",
                              !.process = IF @ = "running" THEN "killed"
                                          ELSE @]
    /\ UNCHANGED nonExecVars

\* What c.Run() returns for a command that ended: nil, an ExitError with
\* the exit status (-1 for a killed command), or another error.
RunError(process) ==
    IF process = "exit0" THEN [kind |-> "nil", status |-> 0]
    ELSE IF process \in Exits
    THEN [kind |-> "ExitError", status |-> ExitStatusOf(process)]
    ELSE IF process = "killed" THEN [kind |-> "ExitError", status |-> -1]
    ELSE [kind |-> "error", status |-> 0]

\* The background goroutine: c.Run() has returned, its error goes to done.
RunReturns ==
    /\ ecall.pc = "waiting"
    /\ ecall.process \in Exits \cup {"killed", "failed"}
    /\ ecall.done = <<>>
    /\ ecall' = [ecall EXCEPT !.done = <<RunError(ecall.process)>>]
    /\ UNCHANGED nonExecVars

\* doExec after the wait: what it returns for the error of c.Run().
doExecResult(runErr) ==
    IF runErr.kind = "nil" THEN [err |-> FALSE, exitcode |-> 0]
    ELSE IF runErr.kind = "ExitError"
    THEN [err |-> FALSE, exitcode |-> runErr.status]
    ELSE [err |-> TRUE, exitcode |-> -1]

\* What the caller gets: ExecSync passes an error on; grpcExec.Run turns a
\* response with a non-zero exit code into an error.
IsFailure(result) == result.err \/ result.exitcode # 0

\* err := <-done; the timer is stopped; the result goes back to the client.
ExecDone ==
    /\ ecall.pc = "waiting"
    /\ ecall.done # <<>>
    /\ ecall' = [ecall EXCEPT
                    !.pc = "returned",
                    !.timer = IF @ = "armed" THEN "stopped" ELSE @,
                    !.result = doExecResult(ecall.done[1]),
                    !.failure = IsFailure(doExecResult(ecall.done[1])),
                    !.response = ExecSync(doExecResult(ecall.done[1]),
                                          ecall.writes),
                    !.reply =
                        IF ecall.client = "grpcExec"
                        THEN grpcExecRun(ExecSync(doExecResult(ecall.done[1]),
                                                  ecall.writes))
                        ELSE NoExecReply]
    /\ UNCHANGED nonExecVars

\* The client has taken the result.
ExecReturn ==
    /\ ecall.pc = "returned"
    /\ ecall' = NoExecCall
    /\ UNCHANGED nonExecVars

ExecNext ==
    \/ \E client \in ExecClients, cmd \in ExecCommands,
          timeout \in ExecTimeouts, behaviour \in Behaviours,
          writes \in Outputs :
          CallExecSync(client, cmd, timeout, behaviour, writes)
    \/ ExecStart
    \/ ProcessExits
    \/ TimerFires
    \/ RunReturns
    \/ ExecDone
    \/ ExecReturn

ExecSpecInit ==
    ExecIdle /\ ProvIdle /\ SelIdle /\ PodIdle /\ MntIdle /\ FmtIdle
    /\ ProcIdle /\ ShareIdle /\ StatIdle /\ SockIdle
    /\ HostIdle /\ ValIdle /\ StopIdle /\ CsiIdle

\* The goroutines run, a started timer fires unless it is stopped, and a
\* command that exits by itself does so; a client need not call.
ExecFairness ==
    /\ WF_vars(ExecStart)
    /\ WF_vars(ProcessExits)
    /\ WF_vars(TimerFires)
    /\ WF_vars(RunReturns)
    /\ WF_vars(ExecDone)
    /\ WF_vars(ExecReturn)

ExecFairSpec == ExecSpecInit /\ [][ExecNext]_vars /\ ExecFairness

(***************************************************************************)
(* SockSpec: GetVolumePluginSocketPath, called by the helper process for   *)
(* each plugin name of its command line and by the kubelet in GetExec.     *)
(***************************************************************************)
\* strings.Replace(text, old, new, -1) for an old that is one piece.
Replace(text, old, new) ==
    [k \in 1..Len(text) |-> IF text[k] = old THEN new ELSE text[k]]

\* The elements of a path: what stands between its slashes.
RECURSIVE Elements(_)
Elements(text) ==
    IF \A k \in 1..Len(text) : text[k] # "/"
    THEN <<text>>
    ELSE LET first == CHOOSE k \in 1..Len(text) :
                          /\ text[k] = "/"
                          /\ \A j \in 1..(k - 1) : text[j] # "/"
         IN  <<SubSeq(text, 1, first - 1)>>
             \o Elements(SubSeq(text, first + 1, Len(text)))

\* path.Clean, element by element: empty elements and "." go away, ".."
\* takes the element before it away, is dropped at the root, and stays at
\* the start of a relative path.
RECURSIVE CleanElements(_, _, _)
CleanElements(rooted, out, rest) ==
    IF rest = <<>> THEN out
    ELSE LET e == Head(rest)
         IN  IF e = <<>> \/ e = <<".">>
             THEN CleanElements(rooted, out, Tail(rest))
             ELSE IF e = <<".", ".">>
             THEN IF out # <<>> /\ out[Len(out)] # <<".", ".">>
                  THEN CleanElements(rooted, SubSeq(out, 1, Len(out) - 1),
                                     Tail(rest))
                  ELSE IF rooted
                  THEN CleanElements(rooted, out, Tail(rest))
                  ELSE CleanElements(rooted, Append(out, e), Tail(rest))
             ELSE CleanElements(rooted, Append(out, e), Tail(rest))

\* path.Clean: the shortest path equal to the given one, as whether it
\* starts at the root and its elements.
Clean(text) ==
    LET rooted == Len(text) > 0 /\ text[1] = "/"
    IN  [rooted |-> rooted,
         elems |-> CleanElements(rooted, <<>>, Elements(text))]

\* path.Join of three elements of which the second is not empty.
pathJoin(a, b, c) ==
    IF a # <<>> THEN Clean(a \o <<"/">> \o b \o <<"/">> \o c)
    ELSE Clean(b \o <<"/">> \o c)

\* GetVolumePluginSocketPath
GetVolumePluginSocketPath(rootDir, pluginName) ==
    pathJoin(rootDir, <<"plugin-sockets">>, Replace(pluginName, "/", "~"))

\* main of the helper process and GetExec of the kubelet ask for the socket
\* of a plugin.
CallGetSocketPath(rootDir, pluginName) ==
    /\ sock.pc = "idle"
    /\ sock' = [pc |-> "done", rootDir |-> rootDir, pluginName |-> pluginName,
                path |-> GetVolumePluginSocketPath(rootDir, pluginName)]
    /\ UNCHANGED nonSockVars

\* The caller has taken the path.
SockReturn ==
    /\ sock.pc = "done"
    /\ sock' = NoSock
    /\ UNCHANGED nonSockVars

SockNext ==
    \/ \E rootDir \in KubeletRootDirs, pluginName \in SocketPluginNames :
          CallGetSocketPath(rootDir, pluginName)
    \/ SockReturn

SockSpecInit ==
    SockIdle /\ ProvIdle /\ SelIdle /\ PodIdle /\ MntIdle /\ FmtIdle
    /\ ProcIdle /\ ShareIdle /\ StatIdle /\ ExecIdle
    /\ HostIdle /\ ValIdle /\ StopIdle /\ CsiIdle

SockSpec == SockSpecInit /\ [][SockNext]_vars

(***************************************************************************)
(* HostSpec: GetMounter and GetExec of the kubelet's volume host and the   *)
(* use of what they return (errorExec, grpcExec, execMounter).             *)
(***************************************************************************)
\* err == nil && info.Mode()&os.ModeSocket > 0
IsSocket(file) == file = "socket"

\* A variant that falls back to the local mounter when the dial fails.
GetMounterFallback(file, dial) ==
    IF IsSocket(file) /\ dial = "connected"
    THEN [impl |-> "execMounter", exec |-> "grpcExec", wrapped |-> "Mounter"]
    ELSE [impl |-> "Mounter", exec |-> "none", wrapped |-> "none"]

\* GetMounter: with a socket, an execMounter around the kubelet's mounter
\* whose Exec is the gRPC client, or an errorExec when the dial failed;
\* otherwise the kubelet's mounter.
GetMounter(file, dial) ==
    IF IsSocket(file)
    THEN [impl |-> "execMounter",
          exec |-> IF dial = "dialError" THEN "errorExec" ELSE "grpcExec",
          wrapped |-> "Mounter"]
    ELSE [impl |-> "Mounter", exec |-> "none", wrapped |-> "none"]

\* GetExec: with a socket, the gRPC client, or an errorExec when the dial
\* failed; otherwise mount.NewOsExec().
GetExec(file, dial) ==
    IF IsSocket(file)
    THEN [impl |-> IF dial = "dialError" THEN "errorExec" ELSE "grpcExec",
          exec |-> "none", wrapped |-> "none"]
    ELSE [impl |-> "OsExec", exec |-> "none", wrapped |-> "none"]

\* A caller asks for the mounter or the executor of a plugin; the dial
\* happens only when there is a socket.
HostGet(getter, file, dial) ==
    /\ hcall.pc = "idle"
    /\ IsSocket(file) \/ dial = "connected"
    /\ LET r == IF getter = "GetMounter" THEN GetMounter(file, dial)
                ELSE GetExec(file, dial)
       IN  hcall' = [NoHostCall EXCEPT !.pc = "got", !.getter = getter,
                                       !.file = file,
                                       !.dial = IF IsSocket(file) THEN dial
                                                ELSE "none",
                                       !.impl = r.impl, !.exec = r.exec,
                                       !.wrapped = r.wrapped]
    /\ UNCHANGED nonHostVars

\* Run of an executor: errorExec returns its error and runs nothing; the
\* gRPC client has the helper run the command; the OS executor runs it on
\* the host.
ExecRun(exec, outcome) ==
    IF exec = "errorExec"
    THEN [where |-> "nowhere", err |-> <<DialError>>]
    ELSE IF outcome = "unavailable"
    THEN [where |-> "nowhere", err |-> <<"rpc error">>]
    ELSE [where |-> IF exec = "grpcExec" THEN "socket" ELSE "host",
          err |-> IF outcome = "ok" THEN <<>> ELSE <<"exit status 1">>]

\* The text the execMounter puts before the error of Run: doExecMount
\* wraps it, Unmount and Exec return it as it is.
ErrorPrefix(op) == IF op = "Mount" THEN <<"mount failed: ">> ELSE <<>>

\* The text the kubelet's mounter puts before the error of its command.
LocalErrorPrefix(op) ==
    IF op = "Mount" THEN <<"mount failed: ">> ELSE <<"Unmount failed: ">>

\* The operation on the returned implementation: the kubelet's mounter
\* works on the host, the execMounter goes through its Exec and wraps its
\* error, an executor runs.
HostOperation(impl, exec, op, outcome) ==
    IF impl = "Mounter"
    THEN [op |-> op, where |-> "host",
          err |-> IF outcome = "ok" THEN <<>>
                  ELSE LocalErrorPrefix(op) \o <<"exit status 1">>]
    ELSE LET r == ExecRun(IF impl = "execMounter" THEN exec ELSE impl, outcome)
         IN  [op |-> op, where |-> r.where,
              err |-> IF r.err = <<>> \/ impl # "execMounter" THEN r.err
                      ELSE ErrorPrefix(op) \o r.err]

\* The operations an implementation has.
HostOps(impl) ==
    IF impl = "Mounter" THEN {"Mount", "Unmount"}
    ELSE IF impl = "execMounter" THEN {"Mount", "Unmount", "Exec"}
    ELSE {"Run"}

\* The outcomes a call on the implementation can have.
HostOutcomes(impl, exec) ==
    IF "errorExec" \in {impl, exec} THEN {"failed"}
    ELSE IF "grpcExec" \in {impl, exec} THEN RunOutcomes
    ELSE {"ok", "failed"}

\* The caller uses what it got.
HostOp(op, outcome) ==
    /\ hcall.pc = "got"
    /\ Len(hcall.log) < MaxHostOps
    /\ op \in HostOps(hcall.impl)
    /\ outcome \in HostOutcomes(hcall.impl, hcall.exec)
    /\ hcall' = [hcall EXCEPT
                    !.log = Append(@, HostOperation(hcall.impl, hcall.exec,
                                                    op, outcome))]
    /\ UNCHANGED nonHostVars

\* The caller drops what it got.
HostReturn ==
    /\ hcall.pc = "got"
    /\ hcall' = NoHostCall
    /\ UNCHANGED nonHostVars

HostNext ==
    \/ \E getter \in Getters, file \in SocketFiles, dial \in DialResults :
          HostGet(getter, file, dial)
    \/ \E op \in {"Mount", "Unmount", "Exec", "Run"}, outcome \in RunOutcomes :
          HostOp(op, outcome)
    \/ HostReturn

HostSpecInit == HostIdle /\ OldIdle /\ ValIdle /\ StopIdle /\ CsiIdle

HostSpec == HostSpecInit /\ [][HostNext]_vars

(***************************************************************************)
(* Properties of GetMounter and GetExec (HostSpec).                        *)
(***************************************************************************)
\* C31: with no socket at the socket path of the plugin GetMounter returns
\* the kubelet's mounter and GetExec the executor of the host, and what
\* they run runs on the host; with a socket they return the execMounter
\* around the kubelet's mounter and the remote executor, and nothing runs
\* on the host; when the connection could not be set up, every Mount,
\* Unmount and Run on what was returned fails with the connection error
\* and runs nothing anywhere.
C31_RemoteIffSocket ==
    hcall.pc = "got" =>
        /\ hcall.file # "socket" =>
              /\ hcall.impl = IF hcall.getter = "GetMounter" THEN "Mounter"
                              ELSE "OsExec"
              /\ \A i \in 1..Len(hcall.log) : hcall.log[i].where = "host"
        /\ hcall.file = "socket" =>
              /\ hcall.getter = "GetMounter" =>
                    /\ hcall.impl = "execMounter"
                    /\ hcall.wrapped = "Mounter"
                    /\ hcall.exec \in {"grpcExec", "errorExec"}
              /\ hcall.getter = "GetExec" =>
                    hcall.impl \in {"grpcExec", "errorExec"}
              /\ \A i \in 1..Len(hcall.log) : hcall.log[i].where # "host"
        /\ (hcall.file = "socket" /\ hcall.dial = "dialError") =>
              \A i \in 1..Len(hcall.log) :
                  /\ hcall.log[i].where = "nowhere"
                  /\ hcall.log[i].err # <<>>
                  /\ hcall.log[i].err[Len(hcall.log[i].err)] = DialError

\* The mounter returned for a socket that could not be dialled has failed
\* a Mount and an Unmount with the connection error.
C31_Witness ==
    /\ hcall.pc = "got"
    /\ hcall.getter = "GetMounter"
    /\ hcall.dial = "dialError"
    /\ Len(hcall.log) = 2
    /\ hcall.log[1].op = "Mount"
    /\ hcall.log[2].op = "Unmount"
    /\ hcall.log[1].err = <<"mount failed: ", DialError>>

(***************************************************************************)
(* StopSpec: main of volumeexec, the goroutine ExecServer.Start starts for *)
(* each plugin, and the stop channel they share.                           *)
(***************************************************************************)
\* The process runs.
Alive == mainPc \in {"starting", "waiting", "stopping"}

\* close(srv.finishedCh): the channel is the one stopCh that main gave to
\* every server; closing a closed channel panics and ends the process.
CloseStopCh ==
    /\ stopCh' = stopCh + 1
    /\ mainPc' = IF stopCh = 0 THEN mainPc ELSE "panicked"

\* The first server of the list with the property; 0 when there is none.
FirstServer(P(_)) ==
    LET has == {i \in 1..Len(srv) : P(srv[i])}
    IN  IF has = {} THEN 0 ELSE CHOOSE i \in has : \A j \in has : i <= j

IsNew(s) == s.pc = "new"

NotStopped(s) == ~s.stopped

\* main, the loop over the plugins: srv.Start() listens and starts the
\* goroutine that serves; a failure to listen exits with status 2.
MainStartServer(ok) ==
    /\ mainPc = "starting"
    /\ FirstServer(IsNew) # 0
    /\ IF ok
       THEN /\ srv' = [srv EXCEPT ![FirstServer(IsNew)].pc = "serving"]
            /\ UNCHANGED mainPc
       ELSE /\ mainPc' = "exited"
            /\ UNCHANGED srv
    /\ UNCHANGED <<stopCh, nonStopVars>>

\* main has started every server and waits: <-stopCh
MainWait ==
    /\ mainPc = "starting"
    /\ FirstServer(IsNew) = 0
    /\ mainPc' = "waiting"
    /\ UNCHANGED <<stopCh, srv, nonStopVars>>

\* A termination signal arrives: every handler that is in Run gets it.
Signal ==
    /\ Alive
    /\ \E i \in 1..Len(srv) : srv[i].pc = "serving" /\ srv[i].sig = "none"
    /\ srv' = [i \in 1..Len(srv) |->
                  IF srv[i].pc = "serving" /\ srv[i].sig = "none"
                  THEN [srv[i] EXCEPT !.sig = "pending"]
                  ELSE srv[i]]
    /\ UNCHANGED <<stopCh, mainPc, nonStopVars>>

\* The handler of a server takes the signal: unless its Run has returned,
\* it calls the function given to interrupt.New, which closes the channel.
HandlerFinal(i) ==
    /\ Alive
    /\ srv[i].sig = "pending"
    /\ srv' = [srv EXCEPT ![i].sig = "handled"]
    /\ IF srv[i].pc = "serving" THEN CloseStopCh
       ELSE UNCHANGED <<stopCh, mainPc>>
    /\ UNCHANGED nonStopVars

\* srv.server.Serve(listener) returns: with an error of its own, or
\* because the server was stopped.
ServeReturns(i) ==
    /\ Alive
    /\ srv[i].pc = "serving"
    /\ srv' = [srv EXCEPT ![i].pc = "returned"]
    /\ UNCHANGED <<stopCh, mainPc, nonStopVars>>

\* The goroutine after handler.Run: close(srv.finishedCh)
CloseAfterServe(i) ==
    /\ Alive
    /\ srv[i].pc = "returned"
    /\ srv' = [srv EXCEPT ![i].pc = "finished"]
    /\ CloseStopCh
    /\ UNCHANGED nonStopVars

\* <-stopCh returns once the channel is closed.
MainWake ==
    /\ mainPc = "waiting"
    /\ stopCh > 0
    /\ mainPc' = "stopping"
    /\ UNCHANGED <<stopCh, srv, nonStopVars>>

\* main, the loop over the servers: srv.Stop()
MainStop ==
    /\ mainPc = "stopping"
    /\ FirstServer(NotStopped) # 0
    /\ srv' = [srv EXCEPT ![FirstServer(NotStopped)].stopped = TRUE]
    /\ UNCHANGED <<stopCh, mainPc, nonStopVars>>

\* main returns and the process ends, whatever the goroutines were doing.
MainExit ==
    /\ mainPc = "stopping"
    /\ FirstServer(NotStopped) = 0
    /\ mainPc' = "exited"
    /\ UNCHANGED <<stopCh, srv, nonStopVars>>

StopNext ==
    \/ \E ok \in BOOLEAN : MainStartServer(ok)
    \/ MainWait
    \/ Signal
    \/ \E i \in 1..Len(srv) : HandlerFinal(i)
    \/ \E i \in 1..Len(srv) : ServeReturns(i)
    \/ \E i \in 1..Len(srv) : CloseAfterServe(i)
    \/ MainWake
    \/ MainStop
    \/ MainExit

\* main has parsed its arguments and made stopCh; there is a server to
\* start for each plugin named.
StopInit ==
    /\ stopCh = 0
    /\ srv \in {[i \in 1..n |-> NewServer] : n \in 1..MaxServers}
    /\ mainPc = "starting"

StopSpecInit == StopInit /\ OldIdle /\ HostIdle /\ ValIdle /\ CsiIdle

StopSpec == StopSpecInit /\ [][StopNext]_vars

(***************************************************************************)
(* Properties of volumeexec's stop channel (StopSpec).                     *)
(***************************************************************************)
\* C37: the stop channel that all plugin servers share is closed at most
\* once, whatever the order of signals and of servers returning and however
\* many servers there are; no close is made on the closed channel.
C37_StopChClosedOnce == stopCh <= 1

(***************************************************************************)
(* CsiSpec: csiMountMgr.SetUpAt on one target directory, call after call,  *)
(* with the mounter's view of the directory and the kernel's mounts on it. *)
(***************************************************************************)
\* An entry of the log of a call.
CsiEntry(op, err) ==
    [op |-> op, err |-> err, notMnt |-> FALSE, source |-> "",
     options |-> <<>>, mounted |-> csiDir.stack # <<>>]

\* mounter.IsLikelyNotMountPoint(dir): what the Mounter finds, or a failure
\* of another kind.
CsiCheck(fails) ==
    IF fails THEN [notMnt |-> TRUE, err |-> TRUE, notExist |-> FALSE]
    ELSE [notMnt |-> IsNotMountPoint(csiDir).notMnt,
          err |-> IsNotMountPoint(csiDir).err,
          notExist |-> csiDir.kind = "missing"]

CsiLogCheck(r) ==
    Append(ccall.log,
           [CsiEntry("IsLikelyNotMountPoint", r.err) EXCEPT
               !.notMnt = r.notMnt])

\* A caller enters SetUpAt for the volume, read-only or not.
CallSetUpAt(readOnly) ==
    /\ ccall.pc = "idle"
    /\ ccall' = [ccall EXCEPT !.pc = "check", !.readOnly = readOnly,
                              !.log = <<>>, !.ret = "none"]
    /\ UNCHANGED <<csiDir, nonCsiVars>>

\* SetUpAt after its first check: an error other than "does not exist" is
\* returned; a mount point is success; otherwise the directory is made.
AfterFirstCheck(r) ==
    IF r.err /\ ~r.notExist THEN [pc |-> "returned", ret |-> "checkError"]
    ELSE IF ~r.notMnt THEN [pc |-> "returned", ret |-> "nil"]
    ELSE [pc |-> "mkdir", ret |-> "none"]

SetUpCheck(fails) ==
    /\ ccall.pc = "check"
    /\ fails => csiDir.kind # "missing"
    /\ LET r == CsiCheck(fails)
       IN  ccall' = [ccall EXCEPT !.log = CsiLogCheck(r),
                                  !.pc = AfterFirstCheck(r).pc,
                                  !.ret = AfterFirstCheck(r).ret]
    /\ UNCHANGED <<csiDir, nonCsiVars>>

\* os.MkdirAll(dir, 0750)
SetUpMkdir(ok) ==
    /\ ccall.pc = "mkdir"
    /\ ok => csiDir.kind # "file"
    /\ csiDir' = IF ok THEN [csiDir EXCEPT !.kind = "dir"] ELSE csiDir
    /\ ccall' = [ccall EXCEPT !.log = Append(@, CsiEntry("MkdirAll", ~ok)),
                              !.pc = IF ok THEN "mount" ELSE "returned",
                              !.ret = IF ok THEN "none" ELSE "mkdirError"]
    /\ UNCHANGED nonCsiVars

\* options := []string{"bind"}; "ro" is added when the volume is read-only
CsiMountOptions(readOnly) ==
    IF readOnly THEN <<"bind", "ro">> ELSE <<"bind">>

\* mounter.Mount(globalPath, dir, "", options): the bind and then the
\* remount; the bind puts the device of the global path on the directory.
SetUpMount(ok1, ok2) ==
    /\ ccall.pc = "mount"
    /\ ok1 => (csiDir.kind = "dir" /\ Len(csiDir.stack) < MaxStack)
    /\ ~ok1 => ok2
    /\ isBind(CsiMountOptions(ccall.readOnly)).bind
    /\ csiDir' = IF ok1 THEN [csiDir EXCEPT !.stack = Append(@, ccall.globalDev)]
                 ELSE csiDir
    /\ ccall' = [ccall EXCEPT
                    !.log = Append(@, [CsiEntry("Mount", ~(ok1 /\ ok2)) EXCEPT
                                         !.source = GlobalPath,
                                         !.options =
                                             CsiMountOptions(ccall.readOnly)]),
                    !.pc = IF ok1 /\ ok2 THEN "returned" ELSE "check1",
                    !.ret = IF ok1 /\ ok2 THEN "nil" ELSE "none"]
    /\ UNCHANGED nonCsiVars

\* After the failed Mount: a failed check returns; a mount point is
\* unmounted; otherwise the directory is removed.
AfterMountFailure(r) ==
    IF r.err THEN "returned"
    ELSE IF ~r.notMnt THEN "unmount"
    ELSE "remove"

SetUpCheckAfterMount(fails) ==
    /\ ccall.pc = "check1"
    /\ LET r == CsiCheck(fails)
       IN  ccall' = [ccall EXCEPT
                        !.log = CsiLogCheck(r),
                        !.pc = AfterMountFailure(r),
                        !.ret = IF AfterMountFailure(r) = "returned"
                                THEN "mountError" ELSE "none"]
    /\ UNCHANGED <<csiDir, nonCsiVars>>

\* mounter.Unmount(dir)
SetUpUnmount(ok) ==
    /\ ccall.pc = "unmount"
    /\ ok => csiDir.stack # <<>>
    /\ csiDir' = IF ok
                 THEN [csiDir EXCEPT !.stack = SubSeq(@, 1, Len(@) - 1)]
                 ELSE csiDir
    /\ ccall' = [ccall EXCEPT !.log = Append(@, CsiEntry("Unmount", ~ok)),
                              !.pc = IF ok THEN "check2" ELSE "returned",
                              !.ret = IF ok THEN "none" ELSE "mountError"]
    /\ UNCHANGED nonCsiVars

\* A variant that removes the directory whatever the check says.
AfterUnmountAlwaysRemove(r) == "remove"

\* After the unmount: a failed check returns, and so does a directory
\* that is still a mount point; otherwise the directory is removed.
AfterUnmount(r) ==
    IF r.err THEN "returned"
    ELSE IF ~r.notMnt THEN "returned"
    ELSE "remove"

SetUpCheckAfterUnmount(fails) ==
    /\ ccall.pc = "check2"
    /\ LET r == CsiCheck(fails)
       IN  ccall' = [ccall EXCEPT
                        !.log = CsiLogCheck(r),
                        !.pc = AfterUnmount(r),
                        !.ret = IF AfterUnmount(r) = "returned"
                                THEN "mountError" ELSE "none"]
    /\ UNCHANGED <<csiDir, nonCsiVars>>

\* os.Remove(dir), whose error is dropped: the kernel removes a directory
\* only when nothing is mounted on it. SetUpAt returns the error of Mount.
SetUpRemove(ok) ==
    /\ ccall.pc = "remove"
    /\ ok => (csiDir.kind = "dir" /\ csiDir.stack = <<>>)
    /\ csiDir' = IF ok THEN [csiDir EXCEPT !.kind = "missing"] ELSE csiDir
    /\ ccall' = [ccall EXCEPT !.log = Append(@, CsiEntry("Remove", ~ok)),
                              !.pc = "returned",
                              !.ret = "mountError"]
    /\ UNCHANGED nonCsiVars

\* The caller has the result; the kubelet may call again later.
SetUpReturn ==
    /\ ccall.pc = "returned"
    /\ ccall' = [ccall EXCEPT !.pc = "idle", !.prev = ccall.ret,
                              !.log = <<>>, !.ret = "none",
                              !.readOnly = FALSE]
    /\ UNCHANGED <<csiDir, nonCsiVars>>

CsiNext ==
    \/ \E readOnly \in BOOLEAN : CallSetUpAt(readOnly)
    \/ \E fails \in BOOLEAN : SetUpCheck(fails)
    \/ \E ok \in BOOLEAN : SetUpMkdir(ok)
    \/ \E ok1 \in BOOLEAN, ok2 \in BOOLEAN : SetUpMount(ok1, ok2)
    \/ \E fails \in BOOLEAN : SetUpCheckAfterMount(fails)
    \/ \E ok \in BOOLEAN : SetUpUnmount(ok)
    \/ \E fails \in BOOLEAN : SetUpCheckAfterUnmount(fails)
    \/ \E ok \in BOOLEAN : SetUpRemove(ok)
    \/ SetUpReturn

\* The target is a directory, a file or nothing, with nothing mounted on
\* it; the global path of the volume lies on some device.
CsiInit ==
    /\ csiDir \in {[kind |-> k, stack |-> <<>>] : k \in PathKinds}
    /\ ccall \in {[NoCsiCall EXCEPT !.globalDev = d] : d \in Devs}

CsiSpecInit == CsiInit /\ OldIdle /\ HostIdle /\ ValIdle /\ StopIdle

CsiSpec == CsiSpecInit /\ [][CsiNext]_vars

(***************************************************************************)
(* Properties of csiMountMgr.SetUpAt (CsiSpec).                            *)
(***************************************************************************)
\* The places of the log of the call that hold the operation.
CsiOps(op) == {i \in 1..Len(ccall.log) : ccall.log[i].op = op}

\* C39: SetUpAt is idempotent in what it mounts. When its check reports the
\* target as a mount point it returns success and issues no Mount, so a
\* SetUpAt that follows a successful one issues no Mount; and a Mount it
\* issues is a bind mount of the global device path, with "ro" among the
\* options exactly when the volume is read-only.
C39_SetUpAtIdempotent ==
    /\ (ccall.log # <<>> /\ ~ccall.log[1].err /\ ~ccall.log[1].notMnt) =>
          /\ Len(ccall.log) = 1
          /\ ccall.pc = "returned"
          /\ ccall.ret = "nil"
    /\ ccall.prev = "nil" => CsiOps("Mount") = {}
    /\ \A i \in CsiOps("Mount") :
          /\ ccall.log[i].source = GlobalPath
          /\ ccall.log[i].options =
                 IF ccall.readOnly THEN <<"bind", "ro">> ELSE <<"bind">>


\* The Mount of the call failed; m is its place in the log.
MountFailedAt(m) == m \in CsiOps("Mount") /\ ccall.log[m].err

\* The entry is a check that went through, with what it reported.
ReportedMounted(e) ==
    e.op = "IsLikelyNotMountPoint" /\ ~e.err /\ ~e.notMnt

ReportedNotMounted(e) ==
    e.op = "IsLikelyNotMountPoint" /\ ~e.err /\ e.notMnt

FieldError(type, field) == [type |-> type, field |-> field]

\* apivalidation.ValidateObjectMeta for a type without namespace, with
\* ValidateClassName for the name.
ValidateObjectMeta(class) ==
    (IF class.namespace # ""
     THEN {FieldError("Forbidden", "metadata.namespace")} ELSE {})
    \cup (IF class.name = "" THEN {FieldError("Required", "metadata.name")}
          ELSE IF class.name # "foo"
          THEN {FieldError("Invalid", "metadata.name")}
          ELSE {})

\* strings.ToLower
ToLowerPiece(piece) ==
    IF piece = "Example.COM" THEN "example.com"
    ELSE IF piece = "Foo" THEN "foo"
    ELSE piece

ToLower(text) == [i \in 1..Len(text) |-> ToLowerPiece(text[i])]

\* The piece is a DNS-1123 subdomain: lower case letters, digits, "-", ".".
IsDNS1123Subdomain(piece) ==
    piece \in {"kubernetes.io", "example.com", "foo", "foo-provisioner",
               "invalid", "provisioner"}

\* The piece is a name part: letters of either case, digits, "-", "_",
\* ".", at most 63 of them.
IsNamePart(piece) ==
    IsDNS1123Subdomain(piece) \/ piece \in {"Example.COM", "Foo"}

\* validation.IsQualifiedName: a name part, or a DNS subdomain, "/" and a
\* name part.
IsQualifiedName(text) ==
    \/ Len(text) = 1 /\ IsNamePart(text[1])
    \/ /\ Len(text) = 3
       /\ IsDNS1123Subdomain(text[1])
       /\ text[2] = "/"
       /\ IsNamePart(text[3])

validateProvisioner(provisioner) ==
    IF Len(provisioner) = 0 THEN {FieldError("Required", "provisioner")}
    ELSE IF ~IsQualifiedName(ToLower(provisioner))
    THEN {FieldError("Invalid", "provisioner")}
    ELSE {}

\* The number of entries of the blocks.
RECURSIVE CountOf(_)
CountOf(blocks) ==
    IF blocks = {} THEN 0
    ELSE LET b == CHOOSE x \in blocks : TRUE
         IN  b.count + CountOf(blocks \ {b})

\* len(params)
ParamLen(params) == CountOf(params.blocks)

\* The loop over the entries: totalSize += len(k) + len(v)
RECURSIVE SizeOf(_)
SizeOf(blocks) ==
    IF blocks = {} THEN 0
    ELSE LET b == CHOOSE x \in blocks : TRUE
         IN  b.count * (b.klen + b.vlen) + SizeOf(blocks \ {b})

\* totalSize after the loop
ParamSize(params) == SizeOf(params.blocks)

\* A variant without the limit on the number of parameters.
validateParametersAnyLen(params) ==
    (IF \E b \in params.blocks : b.klen < 1
     THEN {FieldError("Invalid", "parameters")} ELSE {})
    \cup (IF ParamSize(params) > maxProvisionerParameterSize
          THEN {FieldError("TooLong", "parameters")} ELSE {})

validateParameters(params) ==
    IF ParamLen(params) > maxProvisionerParameterLen
    THEN {FieldError("TooLong", "parameters")}
    ELSE (IF \E b \in params.blocks : b.klen < 1
          THEN {FieldError("Invalid", "parameters")} ELSE {})
         \cup (IF ParamSize(params) > maxProvisionerParameterSize
               THEN {FieldError("TooLong", "parameters")} ELSE {})

supportedReclaimPolicy == {"Delete", "Retain"}

validateReclaimPolicy(reclaimPolicy) ==
    IF Len(reclaimPolicy) > 0 /\ reclaimPolicy \notin supportedReclaimPolicy
    THEN {FieldError("NotSupported", "reclaimPolicy")}
    ELSE {}

\* gate: the feature gate ExpandPersistentVolumes is enabled.
validateAllowVolumeExpansion(allowExpand, gate) ==
    IF allowExpand # "nil" /\ ~gate
    THEN {FieldError("Forbidden", "allowVolumeExpansion")}
    ELSE {}

ValidateStorageClass(class, gate) ==
    ValidateObjectMeta(class)
    \cup validateProvisioner(class.provisioner)
    \cup validateParameters(class.parameters)
    \cup validateReclaimPolicy(class.reclaimPolicy)
    \cup validateAllowVolumeExpansion(class.allowVolumeExpansion, gate)

\* reflect.DeepEqual of two maps: both nil or both not, and the same
\* entries.
DeepEqual(a, b) == a.isNil = b.isNil /\ a.blocks = b.blocks

ValidateStorageClassUpdate(class, oldClass, metaErrs) ==
    metaErrs
    \cup (IF ~DeepEqual(oldClass.parameters, class.parameters)
          THEN {FieldError("Forbidden", "parameters")} ELSE {})
    \cup (IF class.provisioner # oldClass.provisioner
          THEN {FieldError("Forbidden", "provisioner")} ELSE {})
    \cup (IF class.reclaimPolicy # oldClass.reclaimPolicy
          THEN {FieldError("Forbidden", "reclaimPolicy")} ELSE {})

\* A StorageClass is sent for creation when there is none; it is stored
\* when validation finds nothing.
CreateClass(class) ==
    LET errs == ValidateStorageClass(class, vcall.gate)
    IN  /\ vcall.op = "none"
        /\ vcall' = [vcall EXCEPT
                        !.op = "create", !.obj = {class}, !.old = {},
                        !.errs = errs,
                        !.stored = IF errs = {} THEN {class} ELSE @,
                        !.created = IF errs = {} THEN {class} ELSE @]
        /\ UNCHANGED nonValVars

\* An update of the stored StorageClass is sent; it replaces the stored one
\* when validation finds nothing.
UpdateClass(provisioner, reclaimPolicy, parameters, metaErrs) ==
    /\ vcall.stored # {}
    /\ LET oldClass == CHOOSE c \in vcall.stored : TRUE
           class == [oldClass EXCEPT !.provisioner = provisioner,
                                     !.reclaimPolicy = reclaimPolicy,
                                     !.parameters = parameters]
           errs == ValidateStorageClassUpdate(class, oldClass, metaErrs)
       IN  vcall' = [vcall EXCEPT
                        !.op = "update", !.obj = {class}, !.old = {oldClass},
                        !.errs = errs,
                        !.stored = IF errs = {} THEN {class} ELSE @]
    /\ UNCHANGED nonValVars

\* The StorageClass is deleted, or the rejected one is dropped.
DeleteClass ==
    /\ vcall.op # "none"
    /\ vcall' = [NoValCall EXCEPT !.gate = vcall.gate]
    /\ UNCHANGED nonValVars

ValNext ==
    \/ \E class \in StorageClasses : CreateClass(class)
    \/ DeleteClass
    \/ \E provisioner \in UpdateProvisioners,
          reclaimPolicy \in UpdateReclaimPolicies,
          parameters \in UpdateParameters, metaErrs \in MetaUpdateErrors :
          UpdateClass(provisioner, reclaimPolicy, parameters, metaErrs)

\* The feature gate is set when the process starts.
ValInit == vcall \in {[NoValCall EXCEPT !.gate = g] : g \in BOOLEAN}

ValSpecInit == ValInit /\ OldIdle /\ HostIdle /\ StopIdle /\ CsiIdle

ValSpec == ValSpecInit /\ [][ValNext]_vars

(***************************************************************************)
(* Properties of the validation of StorageClass (ValSpec).                 *)
(***************************************************************************)
\* The validated object and the one it updates.
ValObj == CHOOSE c \in vcall.obj : TRUE

ValOld == CHOOSE c \in vcall.old : TRUE

Forbids(field) == FieldError("Forbidden", field) \in vcall.errs

\* C32: over the accepted updates provisioner, reclaimPolicy and parameters
\* stay what they were at creation; an update that changes one of them is
\* rejected with Forbidden for that field, and an update that changes none
\* of them is not rejected on their account. Parameters are the same when
\* they hold the same keys with the same values.
C32_ImmutableAfterCreation ==
    /\ \A s \in vcall.stored, c \in vcall.created :
          /\ s.provisioner = c.provisioner
          /\ s.reclaimPolicy = c.reclaimPolicy
          /\ s.parameters.blocks = c.parameters.blocks
    /\ vcall.op = "update" =>
          /\ Forbids("provisioner") <=>
                ValObj.provisioner # ValOld.provisioner
          /\ Forbids("reclaimPolicy") <=>
                ValObj.reclaimPolicy # ValOld.reclaimPolicy
          /\ Forbids("parameters") <=>
                ValObj.parameters.blocks # ValOld.parameters.blocks

\* What is said of the parameters of the validated object.
HasEmptyKey(params) == \E b \in params.blocks : b.klen = 0

TooManyParameters(params) == ParamLen(params) > 512

ParametersTooLarge(params) == ParamSize(params) > 262144

WithinLimits(params) ==
    ~TooManyParameters(params) /\ ~ParametersTooLarge(params)

UnsupportedReclaimPolicy(class) ==
    class.reclaimPolicy # "" /\ class.reclaimPolicy \notin {"Delete", "Retain"}

HasBind(options) == \E i \in 1..Len(options) : options[i] = "bind"

\* The options in their order without every "bind" and "remount".
RECURSIVE WithoutBindRemount(_)
WithoutBindRemount(options) ==
    IF Len(options) = 0 THEN <<>>
    ELSE IF Head(options) \in {"bind", "remount"}
         THEN WithoutBindRemount(Tail(options))
         ELSE <<Head(options)>> \o WithoutBindRemount(Tail(options))

\* The commands run so far are mount commands.
AllMountCommands ==
    \A i \in 1..Len(cmds) :
        \/ cmds[i].cmd = "mount"
        \/ cmds[i].cmd = mounterPath /\ cmds[i].args[1] = "mount"

\* The argument that follows "-o" in a command, "" when there is none.
OptionArgument(command) ==
    IF \E i \in 1..(Len(command.args) - 1) : command.args[i] = "-o"
    THEN command.args[1 + CHOOSE i \in 1..(Len(command.args) - 1) :
                               command.args[i] = "-o"]
    ELSE ""

\* C15: a Mount whose options contain "bind" runs the mount command with the
\* options ["bind"] first and, when that succeeds, once more with "remount"
\* followed by the requested options without "bind" and "remount", and then
\* returns; a Mount without "bind" runs the mount command once with the
\* options as given.
C15_BindMountTwoCommands ==
    mcall.method = "Mount"
    => /\ AllMountCommands
       /\ HasBind(mcall.options) /\ Len(cmds) >= 1
          => /\ cmds[1].options = <<"bind">>
             /\ OptionArgument(cmds[1]) = "bind"
       /\ HasBind(mcall.options) /\ mcall.pc = "returned"
          => \/ Len(cmds) = 1 /\ ~cmds[1].ok
             \/ /\ Len(cmds) = 2
                /\ cmds[1].ok
                /\ cmds[2].options =
                       <<"remount">> \o WithoutBindRemount(mcall.options)
                /\ OptionArgument(cmds[2]) = Join(cmds[2].options)
       /\ ~HasBind(mcall.options) /\ mcall.pc = "returned"
          => /\ Len(cmds) = 1
             /\ cmds[1].options = mcall.options
             /\ OptionArgument(cmds[1]) = Join(mcall.options)

\* Mount with the options noatime, bind, remount has returned after two
\* commands, the second with the options remount, noatime.
C15_Witness ==
    /\ mcall.method = "Mount"
    /\ mcall.pc = "returned"
    /\ mcall.options = <<"noatime", "bind", "remount">>
    /\ Len(cmds) = 2
    /\ cmds[1].options = <<"bind">>
    /\ cmds[2].options = <<"remount", "noatime">>
    /\ OptionArgument(cmds[2]) = "remount,noatime"

\* C16: the execMounter runs Mount and Unmount through its Exec interface
\* only, with the commands mount and umount, while List,
\* IsLikelyNotMountPoint, GetDeviceNameFromMount and MakeShared make one call
\* of the same method of the wrapped mounter and none of the Exec interface.
C16_ExecMounterRouting ==
    mcall.impl = "execMounter"
    => /\ mcall.method = "Mount"
          => \A i \in 1..Len(cmds) :
                cmds[i].via = "exec.Run" /\ cmds[i].cmd = "mount"
       /\ mcall.method = "Unmount"
          => \A i \in 1..Len(cmds) :
                cmds[i].via = "exec.Run" /\ cmds[i].cmd = "umount"
       /\ mcall.method \in {"Mount", "Unmount"} /\ mcall.pc = "returned"
          => Len(cmds) >= 1
       /\ mcall.method \in {"List", "IsLikelyNotMountPoint",
                            "GetDeviceNameFromMount", "MakeShared"}
          => /\ \A i \in 1..Len(cmds) :
                   /\ cmds[i].via = "wrappedMounter"
                   /\ cmds[i].cmd = mcall.method
             /\ mcall.pc = "returned" => Len(cmds) = 1

\* MakeShared of the execMounter has returned after one call of the wrapped
\* mounter's MakeShared.
C16_Witness ==
    /\ mcall.impl = "execMounter"
    /\ mcall.method = "MakeShared"
    /\ mcall.pc = "returned"
    /\ Len(cmds) = 1
    /\ cmds[1].via = "wrappedMounter"

\* C17: the local Mounter runs the containerized mounter only for a mount of
\* type nfs, glusterfs, ceph or cifs that is not a bind mount; for every
\* other type and for every bind mount it runs the host's mount command.
C17_ContainerizedMounterOnlyForNetworkFs ==
    (mcall.impl = "Mounter" /\ mcall.method = "Mount")
    => \A i \in 1..Len(cmds) :
          /\ cmds[i].via = "exec.Command"
          /\ cmds[i].cmd # "mount"
             => /\ mcall.fstype \in {"nfs", "glusterfs", "ceph", "cifs"}
                /\ ~HasBind(mcall.options)
                /\ cmds[i].cmd = mounterPath
          /\ (mcall.fstype \notin {"nfs", "glusterfs", "ceph", "cifs"}
              \/ HasBind(mcall.options))
             => cmds[i].cmd = "mount" /\ cmds[i].args[1] # "mount"

\* A Mount of type nfs without "bind" has run the containerized mounter with
\* the mount command as its first argument.
C17_Witness ==
    /\ mcall.impl = "Mounter"
    /\ mcall.method = "Mount"
    /\ mcall.pc = "returned"
    /\ mcall.fstype = "nfs"
    /\ mcall.options = <<"ro">>
    /\ Len(cmds) = 1
    /\ cmds[1].cmd = "/home/kubernetes/bin/mounter"
    /\ cmds[1].args = <<"mount", "-t", "nfs", "-o", "ro", MountSource, MountTarget>>

\* C18: Mount and Unmount of both implementations stop at the first command
\* that fails and return an error: a failed command is the last one of the
\* call, a call returns an error exactly if its last command failed, Unmount
\* runs one command, and a bind mount whose bind fails runs no remount.
C18_NoInternalRetry ==
    mcall.method \in {"Mount", "Unmount"}
    => /\ \A i \in 1..Len(cmds) :
             ~cmds[i].ok
             => /\ i = Len(cmds)
                /\ mcall.pc = "returned"
                /\ mcall.err
       /\ mcall.pc = "returned" => (mcall.err <=> ~cmds[Len(cmds)].ok)
       /\ mcall.method = "Unmount" => Len(cmds) <= 1
       /\ mcall.method = "Mount"
          => Len(cmds) <= (IF HasBind(mcall.options) THEN 2 ELSE 1)

\* A bind mount has returned an error after its first command, the bind,
\* failed.
C18_Witness ==
    /\ mcall.method = "Mount"
    /\ mcall.pc = "returned"
    /\ mcall.err
    /\ HasBind(mcall.options)
    /\ Len(cmds) = 1
    /\ cmds[1].options = <<"bind">>
    /\ ~cmds[1].ok


\* The Mounter of the call takes no containerized mounter: it was given no
\* path of one, or the filesystem is not one that needs it, or the mount is
\* a bind mount.
NoHelperSelected ==
    \/ mounterPath = ""
    \/ mcall.fstype \notin fsTypesNeedMounter
    \/ isBind(mcall.options).bind

\* The options of the i-th command of the call.
OptionsOfCommand(i) ==
    IF isBind(mcall.options).bind
    THEN (IF i = 1 THEN <<"bind">> ELSE isBind(mcall.options).bindRemountOpts)
    ELSE mcall.options

\* The i-th command of the call as the Mounter runs it on the host with no
\* containerized mounter, and as the execMounter passes it to Exec.
LocalMountCommand(i) ==
    doMount("", defaultMountCommand, MountSource, MountTarget, mcall.fstype,
            OptionsOfCommand(i))

ExecMountCommand(i) ==
    doExecMount(MountSource, MountTarget, mcall.fstype, OptionsOfCommand(i))

\* C34: for every input the execMounter's Mount passes to Exec the argument
\* lists that the Mounter's Mount passes to the mount command of the host
\* when no containerized mounter is selected, one after the other; both stop
\* at the same command and return an error in the same cases: after the one
\* command of a plain mount, after a failed bind, after the remount.
C34_ExecMountMatchesLocalMount ==
    (mcall.method = "Mount" /\ (mcall.impl = "Mounter" => NoHelperSelected)) =>
        LET bind == isBind(mcall.options).bind
            n == Len(cmds)
        IN  /\ \A i \in 1..n :
                /\ cmds[i].cmd = defaultMountCommand
                /\ cmds[i].args = LocalMountCommand(i).args
                /\ cmds[i].args = ExecMountCommand(i).args
                /\ cmds[i].via = IF mcall.impl = "Mounter" THEN "exec.Command"
                                 ELSE "exec.Run"
            /\ n <= IF bind THEN 2 ELSE 1
            /\ n = 2 => cmds[1].ok
            /\ mcall.pc = "returned" =>
                /\ n = IF bind /\ cmds[1].ok THEN 2 ELSE 1
                /\ mcall.err = ~cmds[n].ok

\* The execMounter has run the bind and the remount of a bind mount with a
\* filesystem type, and the remount failed.
C34_Witness ==
    /\ mcall.method = "Mount"
    /\ mcall.impl = "execMounter"
    /\ mcall.pc = "returned"
    /\ mcall.fstype # ""
    /\ Len(cmds) = 2
    /\ Len(mcall.options) = 2
    /\ mcall.err

(***************************************************************************)
(* Properties of formatAndMount (FormatSpec).                              *)
(***************************************************************************)
\* The output of lsblk shows a filesystem or a dependent device: a line that
\* is not empty, or more than one line.
ReportsData(output) ==
    \/ \E i \in 1..Len(output) : output[i] # "\n"
    \/ Cardinality({i \in 1..Len(output) : output[i] = "\n"}) >= 2

\* C19: formatAndMount runs mkfs only directly after a probe that succeeded
\* and showed neither a filesystem nor dependent devices, which itself
\* directly follows a failed mount; it runs mkfs at most once in a call.
C19_MkfsOnlyOnBlankDisk ==
    /\ \A i \in 1..Len(fcmds) :
          fcmds[i].tool = "mkfs"
          => /\ i >= 3
             /\ fcmds[i - 1].tool = "lsblk"
             /\ fcmds[i - 1].ok
             /\ ~ReportsData(fcmds[i - 1].output)
             /\ fcmds[i - 2].tool = "mount"
             /\ ~fcmds[i - 2].ok
    /\ Cardinality({i \in 1..Len(fcmds) : fcmds[i].tool = "mkfs"}) <= 1
    /\ fcall.pc = "mkfs" => ~ReportsData(fcmds[Len(fcmds)].output)

\* The mount failed and lsblk printed two empty lines, a disk with an empty
\* partition: the call has returned without running mkfs.
C19_Witness ==
    /\ fcall.pc = "returned"
    /\ Len(fcmds) = 3
    /\ fcmds[2].tool = "mount" /\ ~fcmds[2].ok
    /\ fcmds[3].tool = "lsblk" /\ fcmds[3].ok
    /\ fcmds[3].output = <<"\n", "\n">>
    /\ fcall.ret \in {"mountErr", "formatConflict"}

\* C20: fsck is the first command of formatAndMount. When it exits with
\* status 4 the call returns an error and runs nothing else; after every
\* other outcome (no error, status 1, another status, fsck missing, another
\* error) the call goes on to the mount.
C20_FsckClassification ==
    Len(fcmds) >= 1
    => /\ fcmds[1].tool = "fsck"
       /\ IF fcmds[1].outcome = [kind |-> "ExitError", status |-> 4]
          THEN /\ Len(fcmds) = 1
               /\ fcall.pc = "returned"
               /\ fcall.ret = "fsckError"
          ELSE /\ Len(fcmds) = 1 => fcall.pc = "mount"
               /\ Len(fcmds) >= 2 => fcmds[2].tool = "mount"
               /\ fcall.ret # "fsckError"

\* fsck has exited with status 4 and the call has returned its error after
\* that one command.
C20_Witness ==
    /\ fcall.pc = "returned"
    /\ fcall.ret = "fsckError"
    /\ Len(fcmds) = 1
    /\ fcmds[1].outcome = [kind |-> "ExitError", status |-> 4]

\* The positions of the log at which a tool ran.
RunsOf(tool) == {i \in 1..Len(fcmds) : fcmds[i].tool = tool}

\* C21: a blank disk found after the failed mount is formatted with the
\* caller's type, ext4 when none was given, and after a successful format
\* the mount is tried once more with that type and the same options and the
\* call returns; a call mounts at most twice; a failed probe and a failed
\* format are the last command of the call, which returns that error.
C21_FormatThenRetryOnce ==
    /\ Cardinality(RunsOf("mount")) <= 2
    /\ \A i \in RunsOf("lsblk") :
          IF ~fcmds[i].ok
          THEN i = Len(fcmds) /\ fcall.pc = "returned" /\ fcall.ret = "lsblkError"
          ELSE ~ReportsData(fcmds[i].output)
               => IF i = Len(fcmds) THEN fcall.pc = "mkfs"
                  ELSE fcmds[i + 1].tool = "mkfs"
    /\ \A i \in RunsOf("mkfs") :
          /\ fcmds[i].cmd = (IF fcall.fstype = "" THEN "mkfs.ext4"
                             ELSE "mkfs." \o fcall.fstype)
          /\ IF ~fcmds[i].ok
             THEN i = Len(fcmds) /\ fcall.pc = "returned" /\ fcall.ret = "mkfsError"
             ELSE IF i = Len(fcmds) THEN fcall.pc = "mountAgain"
             ELSE /\ Len(fcmds) = i + 1
                  /\ fcmds[i + 1].tool = "mount"
                  /\ fcmds[i + 1].fstype = (IF fcall.fstype = "" THEN "ext4"
                                            ELSE fcall.fstype)
                  /\ fcmds[i + 1].options = fcall.options
                  /\ fcall.pc = "returned"
                  /\ fcall.ret = (IF fcmds[i + 1].ok THEN "nil" ELSE "mountErr")

\* A call without a filesystem type has returned success after fsck, a
\* failed mount, a probe that found a blank disk, mkfs.ext4 and a second
\* mount as ext4.
C21_Witness ==
    /\ fcall.pc = "returned"
    /\ fcall.fstype = ""
    /\ fcall.ret = "nil"
    /\ Len(fcmds) = 5
    /\ ~fcmds[2].ok
    /\ fcmds[3].output = <<"\n">>
    /\ fcmds[4].cmd = "mkfs.ext4"
    /\ fcmds[5].tool = "mount" /\ fcmds[5].fstype = "ext4"

\* The first line lsblk printed, or the note on dependent devices when that
\* line is empty.
ExistingFormatOf(output) ==
    IF output[1] # "\n" THEN output[1] ELSE "unknown data, probably partitions"

\* C22: when the mount failed and the probe found a formatted disk the call
\* returns without another command: the conflict error, with the type asked
\* for and the existing one, when a type was asked for and it is not the
\* existing one; the mount error otherwise.
C22_ConflictOrMountError ==
    \A i \in RunsOf("lsblk") :
        (fcmds[i].ok /\ ReportsData(fcmds[i].output))
        => /\ i = Len(fcmds)
           /\ fcmds[i - 1].tool = "mount" /\ ~fcmds[i - 1].ok
           /\ fcall.pc = "returned"
           /\ fcall.existingFormat = ExistingFormatOf(fcmds[i].output)
           /\ IF fcall.fstype # ""
                 /\ fcall.fstype # ExistingFormatOf(fcmds[i].output)
              THEN fcall.ret = "formatConflict"
              ELSE fcall.ret = "mountErr"

\* A mount as ext4 failed on a disk that holds xfs: the call has returned
\* the conflict error.
C22_Witness ==
    /\ fcall.pc = "returned"
    /\ fcall.fstype = "ext4"
    /\ Len(fcmds) = 3
    /\ fcmds[3].output = <<"xfs", "\n">>
    /\ fcall.existingFormat = "xfs"
    /\ fcall.ret = "formatConflict"

(***************************************************************************)
(* Properties of listProcMounts (ListSpec).                                *)
(***************************************************************************)
\* The reads of the call in progress differ in hash, pair by pair.
EveryPairDiffers ==
    \A k \in 1..(Len(lcall.reads) - 1) :
        Sum32(lcall.reads[k].file) # Sum32(lcall.reads[k + 1].file)

\* C23: listProcMounts returns mount points only when its last two reads of
\* the file succeeded and hashed identically, and then the mount points are
\* the entries of the later read; a call makes at most 1 + maxListTries
\* reads; when all of them succeed and every consecutive pair differs, and
\* only then, the call fails with the consistent-snapshot error.
C23_ConsistentSnapshot ==
    LET reads == lcall.reads
        n == Len(reads)
    IN  /\ n <= 1 + maxListTries
        /\ lcall.pc = "returned" =>
            /\ lcall.ret = "nil" =>
                /\ n >= 2
                /\ ~reads[n - 1].err /\ ~reads[n].err
                /\ Sum32(reads[n - 1].file) = Sum32(reads[n].file)
                /\ lcall.mps = [k \in 1..Len(reads[n].file) |->
                                    MountPointOf(reads[n].file[k])]
            /\ lcall.ret = "noConsistentSnapshot" <=>
                /\ n = 1 + maxListTries
                /\ \A k \in 1..n : ~reads[k].err
                /\ EveryPairDiffers
            /\ lcall.ret = "readError" <=> (n >= 1 /\ reads[n].err)

\* A call returns the mount points of its third read after the file changed
\* between the first two.
C23_Witness ==
    /\ lcall.pc = "returned"
    /\ lcall.ret = "nil"
    /\ Len(lcall.reads) = 3
    /\ lcall.reads[1].file # lcall.reads[2].file
    /\ Len(lcall.mps) = 2

(***************************************************************************)
(* Properties of isShared and MakeShared (ShareSpec, ShareFairSpec).       *)
(***************************************************************************)
\* The call is inside getMountInfo.
InGetMountInfo == scall.pc \in {"first", "loop"}

\* C24: getMountInfo makes a bounded number of reads and then returns, with
\* the snapshot or with a failure, even when the file differs on every read:
\* a call that has entered getMountInfo leaves it sooner or later.
C24_GetMountInfoTerminates == [](InGetMountInfo => <>(~InGetMountInfo))

\* The lines of the snapshot whose mount point begins the path of the call.
PrefixLines ==
    {k \in 1..Len(scall.file) :
        /\ Len(scall.file[k][5]) <= Len(scall.path)
        /\ \A c \in 1..Len(scall.file[k][5]) :
               scall.file[k][5][c] = scall.path[c]}

\* The line has a field that starts with "shared:" after its sixth field and
\* before its separator.
SharedLine(line) ==
    \E j \in 7..Len(line) :
        /\ \A i \in 7..j : line[i] # <<"-">>
        /\ line[j][1] = "shared:"

\* C25: isShared(path) goes by the last line of the snapshot whose mount
\* point is a prefix of path: it returns true exactly when that line has an
\* optional field (after the sixth field, before the "-") that starts with
\* "shared:", false otherwise, and an error exactly when no line matches.
C25_IsSharedByLastPrefixEntry ==
    (scall.op = "isShared" /\ scall.pc = "returned"
     /\ scall.ret # "parseError") =>
        LET last == CHOOSE k \in PrefixLines : \A j \in PrefixLines : j <= k
        IN  /\ scall.ret \in {"true", "false", "cannotFindMountPoint"}
            /\ scall.ret = "cannotFindMountPoint" <=> PrefixLines = {}
            /\ scall.ret = "true" <=>
                   (PrefixLines # {} /\ SharedLine(scall.file[last]))

\* isShared returns true for a path under a shared mount that is listed
\* after the private root mount.
C25_Witness ==
    /\ scall.op = "isShared"
    /\ scall.pc = "returned"
    /\ scall.ret = "true"
    /\ Cardinality(PrefixLines) = 2
    /\ ~SharedLine(scall.file[1])

\* The snapshot the call took puts its path on a shared mount.
SnapshotShared ==
    /\ PrefixLines # {}
    /\ SharedLine(scall.file[CHOOSE k \in PrefixLines :
                                 \A j \in PrefixLines : j <= k])

\* C26: MakeShared runs no command and succeeds when its snapshot shows the
\* path on a shared mount; otherwise it runs "mount --bind path path" and,
\* only after that succeeded, "mount --make-rshared path", and succeeds
\* exactly when both did. A second MakeShared on the path of a successful
\* first one, with nothing else changing the mounts, runs no command.
C26_MakeSharedIdempotent ==
    scall.op = "MakeShared" =>
        LET run == scall.cmds
            path == scall.path
        IN  /\ Len(run) <= 2
            /\ Len(run) >= 1 =>
                /\ run[1].cmd = "mount"
                /\ run[1].args = <<"--bind", path, path>>
            /\ Len(run) = 2 =>
                /\ run[1].ok
                /\ run[2].cmd = "mount"
                /\ run[2].args = <<"--make-rshared", path>>
            /\ (scall.pc = "returned"
                /\ scall.ret \notin {"parseError", "cannotFindMountPoint"}) =>
                /\ SnapshotShared => run = <<>> /\ scall.ret = "nil"
                /\ ~SnapshotShared =>
                    /\ Len(run) >= 1
                    /\ scall.ret = "nil" <=> (Len(run) = 2 /\ run[2].ok)
            /\ (scall.pc = "returned" /\ scall.second) =>
                /\ run = <<>>
                /\ scall.ret \in {"nil", "parseError"}

\* A second MakeShared returns without a command after the first one
\* bind-mounted the path and made it shared.
C26_Witness ==
    /\ scall.op = "MakeShared"
    /\ scall.pc = "returned"
    /\ scall.second
    /\ scall.ret = "nil"
    /\ scall.cmds = <<>>
    /\ scall.path = KubeletDir
    /\ TopMount(mountInfo, KubeletDir) # 0


\* The mount point is the path itself or one of the directories above it.
IsPathPrefix(mountPoint, path) ==
    /\ Len(mountPoint) <= Len(path)
    /\ SubSeq(path, 1, Len(mountPoint)) = mountPoint
    /\ \/ Len(mountPoint) = Len(path)
       \/ mountPoint[Len(mountPoint)] = "/"
       \/ path[Len(mountPoint) + 1] = "/"

\* The call has its snapshot and has looked the path up in it.
LookedUp ==
    /\ scall.pc \in {"bind", "rshared", "returned"}
    /\ scall.ret # "parseError"

\* C35: the entry isShared selects has a mount point that is the queried
\* path or a directory above it; an entry whose mount point only begins the
\* text of the path (/var/lib/kube for /var/lib/kubelet) is never selected.
C35_SelectedIsPathPrefix ==
    LookedUp =>
        LET i == FindInfo(scall.oldInfo, scall.path)
        IN  i # 0 => IsPathPrefix(scall.oldInfo[i].mountPoint, scall.path)


\* The mounts mountinfo lists on the path.
MountsOn(path) ==
    {k \in 1..Len(mountInfo) :
        Len(mountInfo[k]) >= 7 /\ mountInfo[k][5] = path}

\* C36: whatever MakeShared calls were made on a path, failed ones included,
\* the path is bind-mounted onto itself at most once; and a call whose bind
\* mount fails runs no make-rshared and returns an error. Nothing but
\* MakeShared mounts on KubeletDir, so every mount listed on it is one of
\* MakeShared's bind mounts.
C36_BindMountedAtMostOnce ==
    /\ Cardinality(MountsOn(KubeletDir)) <= 1
    /\ (scall.op = "MakeShared" /\ scall.cmds # <<>>
        /\ ~scall.cmds[1].ok) =>
           /\ Len(scall.cmds) = 1
           /\ scall.pc = "returned"
           /\ scall.ret = "bindError"

(***************************************************************************)
(* Properties of IsNotMountPoint with Mount and Unmount (StatSpec).        *)
(***************************************************************************)
\* The k-th call on the path was a successful Mount of a source on another
\* device than the directory that holds the path.
MountedOtherDevice(k) ==
    /\ tcall.log[k].op = "Mount"
    /\ ~tcall.log[k].err
    /\ tcall.log[k].dev # ParentDev

\* The k-th call was IsLikelyNotMountPoint.
Checked(k) == tcall.log[k].op = "IsLikelyNotMountPoint"

\* C27: after a successful Mount of a source on another device than the
\* path's parent directory, IsLikelyNotMountPoint called next reports a mount
\* point; when the path was not reported as one before that Mount, a
\* successful Unmount called next makes IsLikelyNotMountPoint report again
\* that it is not a mount point.
C27_MountRoundTrip ==
    LET log == tcall.log
    IN  /\ \A k \in 1..(Len(log) - 1) :
               (MountedOtherDevice(k) /\ Checked(k + 1)) =>
                   (~log[k + 1].notMnt /\ ~log[k + 1].err)
        /\ \A k \in 1..(Len(log) - 3) :
               (/\ MountedOtherDevice(k) /\ log[k].notMnt
                /\ Checked(k + 1)
                /\ log[k + 2].op = "Unmount" /\ ~log[k + 2].err
                /\ Checked(k + 3)) =>
                   (log[k + 3].notMnt /\ ~log[k + 3].err)

\* Mount, check, Unmount, check: a mount point, then not a mount point.
C27_Witness ==
    /\ Len(tcall.log) = 4
    /\ MountedOtherDevice(1) /\ tcall.log[1].notMnt
    /\ Checked(2) /\ ~tcall.log[2].notMnt
    /\ tcall.log[3].op = "Unmount" /\ ~tcall.log[3].err
    /\ Checked(4) /\ tcall.log[4].notMnt

\* C28: IsNotMountPoint reports a mount point exactly when the path is a
\* directory whose device, that of the topmost mount on it, differs from the
\* device of its parent; a bind mount from the parent's device is reported
\* as not a mount point; when stat of the path or of its parent fails the
\* result is "not a mount point" with the error.
C28_MountPointByDevice ==
    \A k \in 1..Len(tcall.log) :
        Checked(k) =>
            LET fs == tcall.log[k].fs
                r == tcall.log[k]
                mounted == fs.stack # <<>>
            IN  /\ ~r.notMnt <=>
                       (/\ fs.kind = "dir"
                        /\ mounted
                        /\ fs.stack[Len(fs.stack)] # ParentDev)
                /\ r.err <=> fs.kind # "dir"
                /\ r.err => r.notMnt
                /\ (fs.kind = "dir" /\ mounted
                    /\ fs.stack[Len(fs.stack)] = ParentDev) =>
                       (r.notMnt /\ ~r.err)

\* A bind mount from the parent's device succeeded, and the check that
\* follows reports no mount point and no error.
C28_Witness ==
    /\ Len(tcall.log) >= 2
    /\ tcall.log[1].op = "Mount" /\ ~tcall.log[1].err
    /\ tcall.log[1].dev = ParentDev
    /\ Checked(2)
    /\ tcall.log[2].notMnt /\ ~tcall.log[2].err
    /\ tcall.log[2].fs.stack # <<>>

(***************************************************************************)
(* Properties of ExecSync (ExecFairSpec).                                  *)
(***************************************************************************)
\* C29: every command run through ExecSync, those of the kubelet's gRPC
\* exec client included, is bounded by a timeout: a call that waits for its
\* command returns sooner or later, the command being stopped if need be.
C29_ExecSyncReturns ==
    [](ecall.pc = "waiting" => <>(ecall.pc = "returned"))


\* C38: the exit status goes from the command to the caller of grpcExec.Run.
\* ExecSync answers a command that exits with status n > 0 with a response
\* whose exitCode is n and with no RPC error; the RPC fails only for an
\* empty command and for a command that did not end with an exit status.
\* grpcExec.Run returns no error exactly when the RPC succeeded with
\* exitCode 0; for another exitCode it returns an exit-status error with
\* that code and stdout followed by stderr; for a failed RPC, its error.
C38_ExitStatusPreserved ==
    ecall.pc = "returned" =>
        /\ (ecall.process \in Exits /\ ExitStatusOf(ecall.process) > 0) =>
              /\ ~ecall.response.err
              /\ ecall.response.ExitCode = ExitStatusOf(ecall.process)
        /\ ecall.response.err <=>
              (ecall.cmd = <<>> \/ ecall.process = "failed")
        /\ ecall.client = "grpcExec" =>
              /\ ecall.reply.kind = "nil" <=>
                    (~ecall.response.err /\ ecall.response.ExitCode = 0)
              /\ ecall.response.err =>
                    ecall.reply.kind = "rpcError" /\ ecall.reply.out = <<>>
              /\ ~ecall.response.err =>
                    ecall.reply.out =
                        ecall.writes.stdout \o ecall.writes.stderr
              /\ (~ecall.response.err /\ ecall.response.ExitCode # 0) =>
                    /\ ecall.reply.kind = "CodeExitError"
                    /\ ecall.reply.code = ecall.response.ExitCode
              /\ ecall.process \in Exits =>
                    ecall.reply.code = ExitStatusOf(ecall.process)

\* grpcExec.Run returns an exit-status error with code 32 and both outputs
\* of a command that exited with 32.
C38_Witness ==
    /\ ecall.pc = "returned"
    /\ ecall.client = "grpcExec"
    /\ ecall.process = "exit32"
    /\ ecall.reply.kind = "CodeExitError"
    /\ ecall.reply.code = 32
    /\ ecall.reply.out = <<"mounted", "warning">>

(***************************************************************************)
(* Properties of GetVolumePluginSocketPath (SockSpec).                     *)
(***************************************************************************)
\* The directory of the sockets under the root directory of the call.
SocketsDir == Clean(sock.rootDir \o <<"/">> \o <<"plugin-sockets">>)

\* C30: for every plugin name the path GetVolumePluginSocketPath returns is
\* a direct child of <rootDir>/plugin-sockets: the elements of that
\* directory followed by one more element, never the directory itself, an
\* ancestor of it or a path outside it.
C30_SocketPathIsDirectChild ==
    sock.pc = "done" =>
        /\ sock.path.rooted = SocketsDir.rooted
        /\ Len(sock.path.elems) = Len(SocketsDir.elems) + 1
        /\ SubSeq(sock.path.elems, 1, Len(SocketsDir.elems)) = SocketsDir.elems

(***************************************************************************)
(* Properties of the MountPodManager (PodSpec).                            *)
(***************************************************************************)
\* The step in which caller t returns from the method op.
Returns(t, op) ==
    /\ call[t].op = op
    /\ call[t].pc # "returned"
    /\ call'[t].pc = "returned"

\* C9: when AddPod returns for a running pod of the watched namespace, the
\* pod's UID is in the set of a plugin name exactly if the plugin is
\* registered and the pod's label "mount."+name is "true"; any other value,
\* an absent label, or a membership left by an earlier version of the pod
\* gives no membership.
C9_RunningPodMembership ==
    [][\A t \in Callers :
          (/\ Returns(t, "AddPod")
           /\ call[t].pod.namespace = WatchedNamespace
           /\ call[t].pod.phase = "Running")
          => \A pluginName \in AllPluginNames :
                (call[t].pod.uid \in Members(pods', pluginName))
                <=> (/\ pluginName \in GetPluginNames
                     /\ ("mount." \o pluginName) \in DOMAIN call[t].pod.labels
                     /\ call[t].pod.labels["mount." \o pluginName] = "true")]_vars

\* AddPod has returned for the running pod "1" labelled "true" for plugin1
\* and "false" for plugin2, which an earlier version had registered for
\* plugin2 only: it is now in the set of plugin1 alone.
C9_Witness ==
    /\ call["handler"].op = "AddPod"
    /\ call["handler"].pc = "returned"
    /\ call["handler"].pod.namespace = WatchedNamespace
    /\ call["handler"].pod.phase = "Running"
    /\ call["handler"].pod.uid = "1"
    /\ DOMAIN call["handler"].pod.labels =
           {"mount.kubernetes.io/fake-plugin1", "mount.kubernetes.io/fake-plugin2"}
    /\ call["handler"].pod.labels["mount.kubernetes.io/fake-plugin2"] = "false"
    /\ call["handler"].before = {"kubernetes.io/fake-plugin2"}
    /\ MembershipsOf(pods, "1") = {"kubernetes.io/fake-plugin1"}

\* C10: when AddPod returns for a pod of the watched namespace that is not
\* running, the pod's UID is in no plugin's set, whatever its labels and
\* whatever was registered before; no step of AddPod(pod) touches the entry
\* of another UID; GetPod returns nil or a pod that is in the plugin's set
\* when it reads it, and a UID enters a set only by an AddPod of a running
\* pod with that UID.
C10_StoppedPodRemoved ==
    [][/\ \A t \in Callers :
             (/\ Returns(t, "AddPod")
              /\ call[t].pod.namespace = WatchedNamespace
              /\ call[t].pod.phase # "Running")
             => MembershipsOf(pods', call[t].pod.uid) = {}
       /\ \A t \in Callers :
             (call[t].op = "AddPod" /\ call'[t] # call[t] /\ call'[t].op = "AddPod")
             => \A u \in UIDs \ {call[t].pod.uid} :
                   /\ MembershipsOf(pods', u) = MembershipsOf(pods, u)
                   /\ \A pluginName \in MembershipsOf(pods, u) :
                         pods'[pluginName][u] = pods[pluginName][u]
       /\ \A t \in Callers :
             Returns(t, "GetPod")
             => \A pod \in call'[t].ret :
                   /\ pod.uid \in Members(pods, call[t].pluginName)
                   /\ pod = pods[call[t].pluginName][pod.uid]
       /\ \A u \in UIDs :
             MembershipsOf(pods', u) \ MembershipsOf(pods, u) # {}
             => \E t \in Callers :
                   /\ Returns(t, "AddPod")
                   /\ call[t].pod.uid = u
                   /\ call[t].pod.phase = "Running"]_vars

\* AddPod has returned for pod "1", now Succeeded and still labelled for both
\* plugins, which was registered for both; only pod "2" is left, in the set
\* of plugin1, and GetPod for plugin1 has returned it.
C10_Witness ==
    /\ call["handler"].op = "AddPod"
    /\ call["handler"].pc = "returned"
    /\ call["handler"].pod.namespace = WatchedNamespace
    /\ call["handler"].pod.phase = "Succeeded"
    /\ call["handler"].pod.uid = "1"
    /\ call["handler"].before =
           {"kubernetes.io/fake-plugin1", "kubernetes.io/fake-plugin2"}
    /\ MembershipsOf(pods, "1") = {}
    /\ MembershipsOf(pods, "2") = {"kubernetes.io/fake-plugin1"}
    /\ call["plugin"].op = "GetPod"
    /\ call["plugin"].pc = "returned"
    /\ call["plugin"].pluginName = "kubernetes.io/fake-plugin1"
    /\ call["plugin"].ret # {}

\* The cache holds the same sets with the same pods except for one UID.
OthersUnchanged(uid) ==
    \A u \in UIDs \ {uid} :
        /\ MembershipsOf(pods', u) = MembershipsOf(pods, u)
        /\ \A pluginName \in MembershipsOf(pods, u) :
              pods'[pluginName][u] = pods[pluginName][u]

\* C11: when DeletePod returns for a pod of the watched namespace, the pod's
\* UID is in no plugin's set, whatever the phase and the labels of the pod
\* passed; the entries of every other UID are as before; and when the UID
\* was in no set the cache is unchanged.
C11_DeletePodRemoves ==
    [][\A t \in Callers :
          Returns(t, "DeletePod")
          => /\ MembershipsOf(pods', call[t].pod.uid) = {}
             /\ OthersUnchanged(call[t].pod.uid)
             /\ MembershipsOf(pods, call[t].pod.uid) = {} => pods' = pods]_vars

\* DeletePod has returned for a Succeeded version of pod "1" without labels,
\* which was registered for both plugins; pod "2" is still in the set of
\* plugin2.
C11_Witness ==
    /\ call["handler"].op = "DeletePod"
    /\ call["handler"].pc = "returned"
    /\ call["handler"].pod.uid = "1"
    /\ call["handler"].pod.phase = "Succeeded"
    /\ call["handler"].pod.labels = NoLabels
    /\ call["handler"].before =
           {"kubernetes.io/fake-plugin1", "kubernetes.io/fake-plugin2"}
    /\ MembershipsOf(pods, "1") = {}
    /\ MembershipsOf(pods, "2") = {"kubernetes.io/fake-plugin2"}

\* The pods the cache holds.
CachedPods ==
    {pods[pluginName][u] : <<pluginName, u>> \in
        {pu \in (DOMAIN pods) \X UIDs : pu[2] \in DOMAIN pods[pu[1]]}}

\* C12: no step of AddPod or DeletePod for a pod outside the watched
\* namespace changes the cache; every pod in the cache belongs to the
\* watched namespace, and so does every pod GetPod has returned.
C12_OtherNamespaceIgnored ==
    /\ [][\A t \in Callers :
             (/\ call[t].op \in {"AddPod", "DeletePod"}
              /\ call'[t] # call[t]
              /\ call[t].pod.namespace # WatchedNamespace)
             => pods' = pods]_vars
    /\ [](\A pod \in CachedPods : pod.namespace = WatchedNamespace)
    /\ [](\A t \in Callers :
             \A pod \in call[t].ret : pod.namespace = WatchedNamespace)

\* AddPod has returned for the running pod "3" of namespace "xxx", labelled
\* for both plugins: the cache holds pod "1" only.
C12_Witness ==
    /\ call["handler"].op = "AddPod"
    /\ call["handler"].pc = "returned"
    /\ call["handler"].pod.uid = "3"
    /\ call["handler"].pod.namespace = "xxx"
    /\ call["handler"].pod.phase = "Running"
    /\ MembershipsOf(pods, "3") = {}
    /\ MembershipsOf(pods, "1") # {}
    /\ \A pod \in CachedPods : pod.uid = "1"

\* C13: GetPod returns nil exactly if the plugin's set is empty or absent;
\* otherwise it returns one pod, which the plugin's set holds under its UID;
\* no step of GetPod changes the cache.
C13_GetPodReturnsMember ==
    [][\A t \in Callers :
          /\ Returns(t, "GetPod")
             => /\ call'[t].ret = {} <=> Members(pods, call[t].pluginName) = {}
                /\ \A pod \in call'[t].ret :
                      /\ call'[t].ret = {pod}
                      /\ pod.uid \in Members(pods, call[t].pluginName)
                      /\ pods[call[t].pluginName][pod.uid] = pod
          /\ (call[t].op = "GetPod" /\ call'[t] # call[t]) => pods' = pods]_vars

\* GetPod for plugin2 has returned pod "2" while the set of plugin1 holds
\* pod "1" only and the set of plugin2 pod "2" only.
C13_Witness ==
    /\ call["plugin"].op = "GetPod"
    /\ call["plugin"].pc = "returned"
    /\ call["plugin"].pluginName = "kubernetes.io/fake-plugin2"
    /\ \E pod \in call["plugin"].ret : pod.uid = "2"
    /\ Members(pods, "kubernetes.io/fake-plugin1") = {"1"}
    /\ Members(pods, "kubernetes.io/fake-plugin2") = {"2"}

\* The caller is between m.mutex.Lock() and the deferred m.mutex.Unlock().
InCritical(t) == call[t].pc \in {"locked", "removed"}

\* C14: a caller is inside a method body exactly while it holds the mutex, so
\* at most one caller is inside and a caller that has returned holds nothing;
\* GetPod never reads the cache while another caller is inside AddPod or
\* DeletePod, in particular not between the removal of a pod's old entry and
\* the addition of its new one.
C14_MethodsAtomic ==
    /\ [](\A t \in Callers : InCritical(t) <=> mutex = t)
    /\ [][\A t \in Callers :
             Returns(t, "GetPod")
             => \A other \in Callers \ {t} : ~InCritical(other)]_vars

\* AddPod of a running version of pod "1", labelled for plugin1 and
\* registered for it before, has removed the old entry and not yet added the
\* new one; GetPod for plugin1 waits for the mutex.
C14_Witness ==
    /\ call["handler"].op = "AddPod"
    /\ call["handler"].pc = "removed"
    /\ call["handler"].pod.uid = "1"
    /\ call["handler"].pod.phase = "Running"
    /\ "mount.kubernetes.io/fake-plugin1" \in DOMAIN call["handler"].pod.labels
    /\ "kubernetes.io/fake-plugin1" \in call["handler"].before
    /\ Members(pods, "kubernetes.io/fake-plugin1") = {}
    /\ call["plugin"].op = "GetPod"
    /\ call["plugin"].pc = "lock"
    /\ call["plugin"].pluginName = "kubernetes.io/fake-plugin1"

(***************************************************************************)
(* Properties of the ProvisioningController (ProvSpec).                    *)
(***************************************************************************)
WorkersOn(c) == {w \in Workers : worker[w].pc # "Idle" /\ worker[w].key = c}

InFlight(c) == {w \in WorkersOn(c) : worker[w].pc = "Provisioning"}

\* C1: for every claim at most one Provision call is in flight, and at most
\* one worker reconciles the claim's key at any time; different claims may
\* be provisioned at the same time.
C1_OneProvisionInFlight ==
    \A c \in Claims :
        /\ Cardinality(InFlight(c)) <= 1
        /\ Cardinality(WorkersOn(c)) <= 1

\* Two Provision calls, for two different claims, are in flight together.
C1_Witness ==
    \E c \in Claims, d \in Claims :
        c # d /\ InFlight(c) # {} /\ InFlight(d) # {}

\* C2: a cycle that found a suitable unbound volume at its start bound the
\* claim to that volume and never called Provision; Provision is called only
\* in cycles whose search for a volume failed.
C2_PreferExistingVolume ==
    \A w \in Workers :
        /\ worker[w].foundVolume =>
              /\ worker[w].pc = "Done"
              /\ worker[w].provCalls = 0
              /\ phase[worker[w].key] = "Bound"
              /\ staticVol = worker[w].key
        /\ worker[w].provCalls > 0 => ~worker[w].foundVolume

\* A cycle bound the existing volume while a class matching the claim
\* existed, so that provisioning would have been possible.
C2_Witness ==
    \E w \in Workers :
        /\ worker[w].foundVolume
        /\ worker[w].pc = "Done"
        /\ Candidates(worker[w].key) # {}

\* No volume, available or bound to the claim itself, satisfies the claim.
NoVolumeFor(c) == ~(staticVol \in {"available", c} /\ VolumeSatisfies(c))

C5_CleanupAfterFailedCreate ==
    \A w \in Workers :
        /\ worker[w].attempts <= MaxCreateAttempts
        /\ worker[w].pc = "CleaningUp" =>
              /\ worker[w].attempts = MaxCreateAttempts
              /\ ~worker[w].created
        /\ (worker[w].pc = "Done" /\ worker[w].provisioned) =>
              \/ worker[w].created
              \/ /\ worker[w].attempts = MaxCreateAttempts
                 /\ worker[w].deleteAttempted
                 /\ worker[w].event # None
        /\ worker[w].deleteAttempted => ~worker[w].created

\* A cycle ended after every creation attempt failed and the delete of the
\* backing volume failed as well.
C5_Witness ==
    \E w \in Workers :
        /\ worker[w].pc = "Done"
        /\ worker[w].provisioned /\ ~worker[w].created
        /\ worker[w].event = "ProvisioningCleanupFailed"

\* The cycle of worker w ended because Provision returned an error.
ProvisionFailed(w) ==
    /\ worker[w].pc = "Done"
    /\ worker[w].provCalls > 0
    /\ ~worker[w].provisioned

ProvFairInit ==
    /\ ProvInit
    /\ claims["c1"] = [selector |-> "zone2", classRef |-> None]
    /\ claims["c2"] = [selector |-> None, classRef |-> None]

ProvFairness ==
    /\ \A c \in Claims : WF_vars(\E w \in Workers : StartCycle(w, c))
    /\ \A w \in Workers :
          /\ WF_vars(MatchClass(w))
          /\ SF_vars(MatchClass(w) /\ worker'[w].pc = "Provisioning")
          /\ WF_vars(\E ok \in BOOLEAN : ProvisionReturn(w, ok))
          /\ SF_vars(ProvisionReturn(w, TRUE))
          /\ WF_vars(\E ok \in BOOLEAN : CreateVolume(w, ok))
          /\ SF_vars(CreateVolume(w, TRUE))
          /\ WF_vars(\E ok \in BOOLEAN : CleanUp(w, ok))
          /\ WF_vars(EndCycle(w))
    /\ WF_vars(Tick)
    /\ \A c \in Claims : WF_vars(BackoffExpire(c))

ProvFairSpecInit == ProvFairInit /\ SelIdle /\ PodIdle /\ MntIdle /\ FmtIdle /\ ProcIdle
    /\ ShareIdle /\ StatIdle /\ ExecIdle /\ SockIdle
    /\ HostIdle /\ ValIdle /\ StopIdle /\ CsiIdle

ProvFairSpec == ProvFairSpecInit /\ [][ProvNext]_vars /\ ProvFairness

\* Provision can succeed for the claim: a class the matcher can return for
\* it has a registered plugin.
Provisionable(c) ==
    \E cls \in ChooseClass(c) :
        cls # None /\ ClassProvisioner(cls) \in RegisteredProvisioners

Settled(c) == phase[c] = "Bound" \/ c \in deleted

\* The safety part of C7: a class created or a volume added queues every
\* Pending claim, a Pending claim that is not queued can always be queued by
\* the next tick, and a Bound claim stays Bound.
C7_RetriedAndStable ==
    [][/\ (classes' # classes
              \/ (staticVol = "absent" /\ staticVol' = "available")) =>
             PendingClaims' \subseteq queue'
       /\ \A c \in PendingClaims : c \in queue \/ ENABLED Tick
       /\ \A c \in Claims : phase[c] = "Bound" => phase'[c] = "Bound"
      ]_vars

====
